---------------------------- MODULE Spec2Model ----------------------------
(***************************************************************************)
(* A model of the legendary installer core:                                *)
(*   - the length-prefixed string codec and the manifest codec             *)
(*     (legendary/models/manifest.py),                                     *)
(*   - the installation planner DLManager.run_analysis and the three       *)
(*     coordinator loops of DLManager (legendary/downloader/mp/manager.py).*)
(* Byte streams are sequences of numbers 0..255, strings are sequences of  *)
(* Unicode code points.                                                    *)
(***************************************************************************)
EXTENDS Integers, Sequences, FiniteSets, TLC

VARIABLES
    \* ---- string codec (read_fstring / write_fstring)
    fs_strs,      \* the strings handed to write_fstring, in order
    fs_bio,       \* the BytesIO buffer
    fs_pos,       \* the reader's position in fs_bio
    fs_nw,        \* how many strings have been written
    fs_out,       \* the results of read_fstring, in order
    fs_ends,      \* buffer length after each write_fstring
    \* ---- manifest codec (Manifest.write / Manifest.read_all)
    mf_obj,       \* the manifest object in memory
    mf_src,       \* the object as the last Manifest.write left it
    mf_wire,      \* the serialized manifest, empty before a write
    mf_padded,    \* mf_wire carries a 45-byte header written by another producer
    mf_back,      \* <<r>>: the result r of the last Manifest.read_all; <<>> before
    mf_pc,        \* "obj": holding an object, "wire": holding bytes, "failed"
    mf_gen,       \* number of Manifest.read_all calls made
    mf_from45,    \* mf_obj was read from a file with a 45-byte header
    \* ---- DLManager: settings and planner
    cfg,          \* <<c>>: the settings c of the DLManager and of run_analysis
    pc,           \* "new", "analysed", "failed", "running", "refused", "exited"
    plan,         \* <<p>>: what run_analysis held when it left; <<>> before
    tasks,        \* self.tasks
    chunks_to_dl, \* self.chunks_to_dl
    analysis,     \* <<a>>: self.analysis; <<>> for None
    hash_map,     \* self.hash_map
    \* ---- DLManager: state shared by the threads
    running,      \* self.running
    active_tasks, \* self.active_tasks
    sms,          \* self.sms, the deque of free slots
    dl_worker_queue, dl_result_q, writer_queue, writer_result_q,
    since_last,   \* the six *_since_last counters
    \* ---- the locals of the threads
    djm,          \* download_job_manager
    drh,          \* dl_results_handler
    frh,          \* fw_results_handler
    main,         \* run_real
    \* ---- the worker processes and what they act on
    children,     \* the download workers alive, the writer and its open file
    disk,         \* the install directory: file name -> content
    journal,      \* the resume file
    shm,          \* the arena: slot -> the guid whose chunk it holds, 0 for none
    \* ---- bookkeeping of the model
    hist,         \* what was put, popped, released and handled so far
    \* ---- functions applied on their own
    pu_in,        \* the function called and its arguments; <<>> when none is
    pu_out        \* <<r>>: the result r of the call; <<>> before it returns

fsVars == <<fs_strs, fs_bio, fs_pos, fs_nw, fs_out, fs_ends>>

mfVars == <<mf_obj, mf_src, mf_wire, mf_padded, mf_back, mf_pc, mf_gen, mf_from45>>

dmVars == <<cfg, pc, plan, tasks, chunks_to_dl, analysis, hash_map, running,
           active_tasks, sms, dl_worker_queue, dl_result_q, writer_queue,
           writer_result_q, since_last, djm, drh, frh, main, children, disk, journal,
           shm, hist>>

puVars == <<pu_in, pu_out>>

vars == <<fsVars, mfVars, dmVars, puVars>>

-----------------------------------------------------------------------------
(* Generic helpers *)

Range(s) == {s[i] : i \in 1..Len(s)}

Min(a, b) == IF a < b THEN a ELSE b

Max(a, b) == IF a > b THEN a ELSE b

\* s[from..] for a 1-based position `from`; empty when from > Len(s)
Drop(s, n) == SubSeq(s, n + 1, Len(s))

Take(s, n) == SubSeq(s, 1, Min(n, Len(s)))

RECURSIVE Concat(_)
Concat(ss) == IF ss = <<>> THEN <<>> ELSE Head(ss) \o Concat(Tail(ss))

\* All sequences over S of length at most n
SeqsUpTo(S, n) == UNION {[1..k -> S] : k \in 0..n}

\* Python's None where a string may stand
None == "None"

\* Python's None where a number may stand
NoneNum == -1

-----------------------------------------------------------------------------
(* struct.pack / struct.unpack, little endian *)

\* byte i (0-based) of a non-negative number
ByteOf(n, i) == (n \div (256 ^ i)) % 256

\* struct.pack('<i', n) and, for 0 <= n < 2^31, struct.pack('<I', n):
\* two's complement for negative n
Pack32(n) ==
    IF n >= 0 THEN [i \in 1..4 |-> ByteOf(n, i - 1)]
    ELSE [i \in 1..4 |-> 255 - ByteOf(-n - 1, i - 1)]

\* struct.unpack('<i', b) for a 4-byte sequence b
Unpack32s(b) ==
    IF b[4] >= 128
    THEN -(1 + (255 - b[1]) + (255 - b[2]) * 256 + (255 - b[3]) * 65536
             + (255 - b[4]) * 16777216)
    ELSE b[1] + b[2] * 256 + b[3] * 65536 + b[4] * 16777216

-----------------------------------------------------------------------------
(* str.encode / bytes.decode *)

IsAscii(s) == \A i \in 1..Len(s) : s[i] < 128

\* one code point as UTF-16 code units
Utf16Units(c) ==
    IF c < 65536 THEN <<c>>
    ELSE <<55296 + ((c - 65536) \div 1024), 56320 + ((c - 65536) % 1024)>>

RECURSIVE EncodeUtf16le(_)
\* str.encode('utf-16le'): two bytes per code unit, low byte first
EncodeUtf16le(s) ==
    IF s = <<>> THEN <<>>
    ELSE LET u == Utf16Units(Head(s))
             b == IF Len(u) = 1 THEN <<u[1] % 256, u[1] \div 256>>
                  ELSE <<u[1] % 256, u[1] \div 256, u[2] % 256, u[2] \div 256>>
         IN  b \o EncodeUtf16le(Tail(s))

DecodeError == [ok |-> FALSE, s |-> <<>>]

RECURSIVE UnitsOf(_, _)
\* the 16-bit code units of an even-length byte string
UnitsOf(b, bigEndian) ==
    IF Len(b) < 2 THEN <<>>
    ELSE <<IF bigEndian THEN b[1] * 256 + b[2] ELSE b[1] + b[2] * 256>>
         \o UnitsOf(Drop(b, 2), bigEndian)

RECURSIVE PairSurrogates(_)
\* code units to code points; a surrogate without its partner is an error
PairSurrogates(u) ==
    IF u = <<>> THEN [ok |-> TRUE, s |-> <<>>]
    ELSE IF u[1] >= 55296 /\ u[1] < 56320
    THEN IF Len(u) >= 2 /\ u[2] >= 56320 /\ u[2] < 57344
         THEN LET rest == PairSurrogates(Drop(u, 2))
              IN  IF rest.ok
                  THEN [ok |-> TRUE,
                        s |-> <<65536 + (u[1] - 55296) * 1024 + (u[2] - 56320)>>
                              \o rest.s]
                  ELSE DecodeError
         ELSE DecodeError
    ELSE IF u[1] >= 56320 /\ u[1] < 57344 THEN DecodeError
    ELSE LET rest == PairSurrogates(Tail(u))
         IN  IF rest.ok THEN [ok |-> TRUE, s |-> <<u[1]>> \o rest.s]
             ELSE DecodeError

\* bytes.decode('utf-16'): a leading byte order mark selects the byte order and
\* is dropped; without one the order is little endian
DecodeUtf16(b) ==
    IF Len(b) % 2 = 1 THEN DecodeError
    ELSE IF Len(b) >= 2 /\ b[1] = 255 /\ b[2] = 254
    THEN PairSurrogates(UnitsOf(Drop(b, 2), FALSE))
    ELSE IF Len(b) >= 2 /\ b[1] = 254 /\ b[2] = 255
    THEN PairSurrogates(UnitsOf(Drop(b, 2), TRUE))
    ELSE PairSurrogates(UnitsOf(b, FALSE))

\* bytes.decode('ascii')
DecodeAscii(b) ==
    IF \A i \in 1..Len(b) : b[i] < 128 THEN [ok |-> TRUE, s |-> b]
    ELSE DecodeError

-----------------------------------------------------------------------------
(* read_fstring / write_fstring *)

\* bio.read(n) at position pos (0-based): at most n bytes, fewer at the end
BioRead(bio, pos, n) ==
    IF n <= 0 \/ pos >= Len(bio) THEN <<>>
    ELSE SubSeq(bio, pos + 1, Min(pos + n, Len(bio)))

\* write_fstring(bio, string): the bytes appended to bio
write_fstring(string) ==
    IF string = <<>> THEN Pack32(0)
    ELSE IF IsAscii(string)
    THEN Pack32(Len(string) + 1) \o string \o <<0>>
    ELSE Pack32(-(Len(string) + 1)) \o EncodeUtf16le(string) \o <<0, 0>>

\* read_fstring(bio) from position pos: [ok, s, pos]; ok = FALSE stands for the
\* exception raised by struct.unpack or bytes.decode
read_fstring(bio, pos) ==
    LET lb == BioRead(bio, pos, 4)
    IN  IF Len(lb) < 4 THEN [ok |-> FALSE, s |-> <<>>, pos |-> pos + Len(lb)]
        ELSE LET length == Unpack32s(lb)
                 p1 == pos + 4
             IN  IF length < 0
                 THEN LET n == length * (-2)
                          raw == BioRead(bio, p1, n - 2)
                          d == DecodeUtf16(raw)
                      IN  IF d.ok
                          THEN [ok |-> TRUE, s |-> d.s, pos |-> p1 + Len(raw) + 2]
                          ELSE [ok |-> FALSE, s |-> <<>>, pos |-> p1 + Len(raw)]
                 ELSE IF length > 0
                 THEN LET raw == BioRead(bio, p1, length - 1)
                          d == DecodeAscii(raw)
                      IN  IF d.ok
                          THEN [ok |-> TRUE, s |-> d.s, pos |-> p1 + Len(raw) + 1]
                          ELSE [ok |-> FALSE, s |-> <<>>, pos |-> p1 + Len(raw)]
                 ELSE [ok |-> TRUE, s |-> <<>>, pos |-> p1]

-----------------------------------------------------------------------------
(* Stream readers used by the manifest codec.  A reader returns            *)
(* [ok, v, pos]; ok = FALSE stands for the exception struct.unpack or      *)
(* bytes.decode raises, after which no value and no position is used.      *)

\* Unsigned 32-bit values of 2^31 and more are all read as BigU32: every such
\* value is larger than any buffer of the model
BigU32 == 1073741824

AddCap(a, b) == IF a >= BigU32 - b THEN BigU32 ELSE a + b

RdOk(v, pos) == [ok |-> TRUE, v |-> v, pos |-> pos]

RdFail(pos) == [ok |-> FALSE, v |-> <<>>, pos |-> pos]

\* the position after bio.seek(size - size_read, 1) where size_read = tell - start;
\* every position past the end of the buffer is read as Len(bio) + 1
SeekEnd(bio, start, size) ==
    IF size > Len(bio) THEN Len(bio) + 1 ELSE start + size

\* bio.read(n): never fails, may return fewer bytes
RdRaw(bio, pos, n) == RdOk(BioRead(bio, pos, n), pos + Len(BioRead(bio, pos, n)))

\* struct.unpack('B', bio.read(1))
RdU8(bio, pos) ==
    IF pos >= Len(bio) THEN RdFail(pos) ELSE RdOk(bio[pos + 1], pos + 1)

\* struct.unpack('<I', bio.read(4))
RdU32(bio, pos) ==
    IF pos + 4 > Len(bio) THEN RdFail(pos)
    ELSE RdOk(IF bio[pos + 4] >= 128 THEN BigU32
              ELSE Unpack32s(SubSeq(bio, pos + 1, pos + 4)), pos + 4)

\* struct.unpack('<Q', bio.read(8)) and ('<q', ...) of non-negative values
RdU64(bio, pos) ==
    IF pos + 8 > Len(bio) THEN RdFail(pos)
    ELSE RdOk(IF bio[pos + 4] >= 128
                 \/ bio[pos + 5] + bio[pos + 6] + bio[pos + 7] + bio[pos + 8] > 0
              THEN BigU32
              ELSE Unpack32s(SubSeq(bio, pos + 1, pos + 4)), pos + 8)

RdFstring(bio, pos) ==
    LET Got(r) == [ok |-> r.ok, v |-> r.s, pos |-> r.pos]
    IN  Got(read_fstring(bio, pos))

RECURSIVE RdSeq(_, _, _)

\* a 32-bit count followed by that many strings
RdFstrings(bio, pos) ==
    LET Items(c) ==
            IF ~c.ok \/ c.v > Len(bio) THEN RdFail(c.pos)
            ELSE RdSeq(bio, c.pos, [i \in 1..c.v |-> "fstr"])
    IN  Items(RdU32(bio, pos))

\* the optional MD5 of a file: a 32-bit flag and, when it is not 0, 16 bytes
RdMd5(bio, pos) ==
    LET Got(h) ==
            IF ~h.ok THEN RdFail(h.pos)
            ELSE IF h.v # 0 THEN RdRaw(bio, h.pos, 16)
            ELSE RdOk(<<>>, h.pos)
    IN  Got(RdU32(bio, pos))

RECURSIVE RdChunkParts(_, _, _, _)
\* n chunk parts of one file; offset is the running file offset.  A part
\* that declares fewer bytes than were read makes the reader seek to the
\* absolute position `diff`
RdChunkParts(bio, pos, n, offset) ==
    IF n = 0 THEN RdOk(<<>>, pos)
    ELSE LET Got(p) ==
                 IF ~p.ok THEN RdFail(p.pos)
                 ELSE LET Cons(rest) ==
                              IF ~rest.ok THEN RdFail(rest.pos)
                              ELSE RdOk(<<[guid |-> p.v[2], offset |-> p.v[3],
                                           size |-> p.v[4],
                                           file_offset |-> offset]>> \o rest.v,
                                        rest.pos)
                      IN  Cons(RdChunkParts(bio,
                                   IF p.pos - pos - p.v[1] > 0
                                   THEN p.pos - pos - p.v[1] ELSE p.pos,
                                   n - 1, AddCap(offset, p.v[4])))
         IN  Got(RdSeq(bio, pos, <<"u32", "guid", "u32", "u32">>))

\* the chunk parts of one file: a 32-bit count and the parts
RdFileParts(bio, pos) ==
    LET Items(c) ==
            IF ~c.ok \/ c.v > Len(bio) THEN RdFail(c.pos)
            ELSE RdChunkParts(bio, c.pos, c.v, 0)
    IN  Items(RdU32(bio, pos))

\* one field of the given kind
RdOne(kind, bio, pos) ==
    CASE kind = "u8" -> RdU8(bio, pos)
      [] kind = "u32" -> RdU32(bio, pos)
      [] kind = "u64" -> RdU64(bio, pos)
      [] kind = "guid" -> RdSeq(bio, pos, <<"u32", "u32", "u32", "u32">>)
      [] kind = "fstr" -> RdFstring(bio, pos)
      [] kind = "fstrs" -> RdFstrings(bio, pos)
      [] kind = "sha1" -> RdRaw(bio, pos, 20)
      [] kind = "md5" -> RdMd5(bio, pos)
      [] kind = "sha256" -> RdRaw(bio, pos, 32)
      [] kind = "parts" -> RdFileParts(bio, pos)

\* the fields of the given kinds, one after the other; the first failure ends
\* the read
RdSeq(bio, pos, kinds) ==
    IF kinds = <<>> THEN RdOk(<<>>, pos)
    ELSE LET Got(r) ==
                 IF ~r.ok THEN RdFail(r.pos)
                 ELSE LET Cons(rest) ==
                              IF ~rest.ok THEN RdFail(rest.pos)
                              ELSE RdOk(<<r.v>> \o rest.v, rest.pos)
                      IN  Cons(RdSeq(bio, r.pos, Tail(kinds)))
         IN  Got(RdOne(Head(kinds), bio, pos))

\* n fields of one kind: one column of a list section
Column(kind, n) == [i \in 1..n |-> kind]

Pack64(n) == Pack32(n) \o <<0, 0, 0, 0>>

PackGuid(g) == Pack32(g[1]) \o Pack32(g[2]) \o Pack32(g[3]) \o Pack32(g[4])

RECURSIVE WrFstrings(_)
WrFstrings(ss) ==
    IF ss = <<>> THEN <<>> ELSE write_fstring(Head(ss)) \o WrFstrings(Tail(ss))

\* a section body behind its size: the placeholder written first and patched
\* once the body is complete
Sized(body) == Pack32(Len(body) + 4) \o body

-----------------------------------------------------------------------------
(* hashlib.sha1 and zlib, as far as the codec depends on them: a digest of *)
(* 20 bytes that is a function of the data, and a compression that         *)
(* decompress inverts and that rejects data compress did not produce.      *)

RECURSIVE ByteSum(_, _, _)
\* a position-weighted checksum of b[lo..hi], computed by halving
ByteSum(b, lo, hi) ==
    IF lo > hi THEN 0
    ELSE IF lo = hi THEN (b[lo] * (1 + (lo % 7))) % 65521
    ELSE (ByteSum(b, lo, (lo + hi) \div 2)
          + ByteSum(b, ((lo + hi) \div 2) + 1, hi)) % 65521

Sha1(b) ==
    <<Len(b) % 256, ByteSum(b, 1, Len(b)) % 256, ByteSum(b, 1, Len(b)) \div 256>>
    \o [i \in 1..17 |-> 0]

\* first byte of a zlib stream
ZlibMagic == 120

zlib_compress(b) == <<ZlibMagic>> \o b

zlib_decompress(b) ==
    IF Len(b) >= 1 /\ b[1] = ZlibMagic THEN [ok |-> TRUE, v |-> Tail(b)]
    ELSE [ok |-> FALSE, v |-> <<>>]

-----------------------------------------------------------------------------
(* ChunkInfo *)

\* zlib.crc32 of the sixteen guid bytes, mod 100
Crc32Mod100(guid) == (91 + 13 * (guid[1] + guid[2] + guid[3] + (guid[4] - 4))) % 100

\* ChunkInfo.guid_num: the 128-bit number; the model's guids have g0 = g1 = g2 = 0
GuidNumOf(guid) == guid[4]

\* ChunkInfo.guid_num (property): computes and caches
ChunkInfo_guid_num(c) ==
    IF c.guid_num_cache = NoneNum \/ c.guid_num_cache = 0
    THEN [c EXCEPT !.guid_num_cache = GuidNumOf(c.guid)]
    ELSE c

\* ChunkInfo.group_num (property getter): [v, c] the value and the chunk after
\* the call
ChunkInfo_group_num(c) ==
    IF c.guid_num_cache # NoneNum THEN [v |-> c.group_num_cache, c |-> c]
    ELSE [v |-> Crc32Mod100(c.guid),
          c |-> [c EXCEPT !.group_num_cache = Crc32Mod100(c.guid)]]

\* ChunkInfo(manifest_version) then the reader's assignments
NewChunkInfo(guid, hash, sha, group, window, fsize) ==
    [guid |-> guid, hash |-> hash, sha_hash |-> sha, group_num_cache |-> group,
     guid_num_cache |-> NoneNum, window_size |-> window, file_size |-> fsize]

get_chunk_dir(version) ==
    IF version >= 15 THEN "ChunksV4"
    ELSE IF version >= 6 THEN "ChunksV3"
    ELSE IF version >= 3 THEN "ChunksV2"
    ELSE "Chunks"

-----------------------------------------------------------------------------
(* ManifestMeta *)

\* ManifestMeta.build_id when _build_id is empty: an ASCII string that is a
\* function of app_id, app_name, build_version, launch_exe and launch_command
DerivedBuildId(meta) ==
    LET Text(d) == <<97 + (d[1] % 26), 97 + (d[2] % 26)>>
    IN  Text(Sha1(Pack32(meta.app_id) \o meta.app_name \o meta.build_version
                  \o meta.launch_exe \o meta.launch_command))

ManifestMeta_build_id(meta) ==
    IF meta.build_id_cache # <<>> THEN meta.build_id_cache ELSE DerivedBuildId(meta)

ManifestMeta_write(meta) ==
    Sized(<<meta.data_version>> \o Pack32(meta.feature_level)
          \o <<IF meta.is_file_data THEN 1 ELSE 0>> \o Pack32(meta.app_id)
          \o WrFstrings(<<meta.app_name, meta.build_version, meta.launch_exe,
                          meta.launch_command>>)
          \o Pack32(Len(meta.prereq_ids)) \o WrFstrings(meta.prereq_ids)
          \o WrFstrings(<<meta.prereq_name, meta.prereq_path, meta.prereq_args>>)
          \o (IF meta.data_version >= 1
              THEN WrFstrings(<<ManifestMeta_build_id(meta)>>) ELSE <<>>)
          \o (IF meta.data_version >= 2
              THEN WrFstrings(<<meta.uninstall_action_path,
                                meta.uninstall_action_args>>)
              ELSE <<>>))

\* the fields every ManifestMeta carries
MetaHead ==
    <<"u32", "u8", "u32", "u8", "u32", "fstr", "fstr", "fstr", "fstr", "fstrs",
      "fstr", "fstr", "fstr">>

\* the fields that depend on data_version
MetaTail(dv) ==
    (IF dv >= 1 THEN <<"fstr">> ELSE <<>>)
    \o (IF dv >= 2 THEN <<"fstr", "fstr">> ELSE <<>>)

ManifestMeta_read(bio, p0) ==
    LET Build(h, t) ==
            IF ~t.ok THEN RdFail(t.pos)
            ELSE RdOk([meta_size |-> h.v[1],
                       data_version |-> IF t.pos # h.v[1] THEN 0 ELSE h.v[2],
                       feature_level |-> h.v[3], is_file_data |-> (h.v[4] = 1),
                       app_id |-> h.v[5], app_name |-> h.v[6],
                       build_version |-> h.v[7], launch_exe |-> h.v[8],
                       launch_command |-> h.v[9], prereq_ids |-> h.v[10],
                       prereq_name |-> h.v[11], prereq_path |-> h.v[12],
                       prereq_args |-> h.v[13],
                       build_id_cache |-> IF h.v[2] >= 1 THEN t.v[1] ELSE <<>>,
                       uninstall_action_path |->
                           IF h.v[2] >= 2 THEN t.v[2] ELSE <<>>,
                       uninstall_action_args |->
                           IF h.v[2] >= 2 THEN t.v[3] ELSE <<>>],
                      IF t.pos # h.v[1] THEN SeekEnd(bio, 0, h.v[1]) ELSE t.pos)
        Rest(h) ==
            IF ~h.ok THEN RdFail(h.pos)
            ELSE Build(h, RdSeq(bio, h.pos, MetaTail(h.v[2])))
    IN  Rest(RdSeq(bio, p0, MetaHead))

-----------------------------------------------------------------------------
(* CDL: the chunk data list *)

RECURSIVE GroupNums(_)
\* reads group_num of every chunk in turn: [v: the values, c: the chunks after]
GroupNums(elems) ==
    IF elems = <<>> THEN [v |-> <<>>, c |-> <<>>]
    ELSE LET Cons(g, rest) == [v |-> <<g.v>> \o rest.v, c |-> <<g.c>> \o rest.c]
         IN  Cons(ChunkInfo_group_num(Head(elems)), GroupNums(Tail(elems)))

\* CDL.write: [ok, bytes, cdl]; ok = FALSE when struct.pack('B', None) raises
CDL_write(cdl) ==
    LET Emit(e, n, groups) ==
            [ok |-> \A i \in 1..n : groups.v[i] # NoneNum,
             bytes |-> Sized(<<cdl.version>> \o Pack32(n)
                             \o Concat([i \in 1..n |-> PackGuid(e[i].guid)])
                             \o Concat([i \in 1..n |-> Pack64(e[i].hash)])
                             \o Concat([i \in 1..n |-> e[i].sha_hash])
                             \o [i \in 1..n |-> groups.v[i]]
                             \o Concat([i \in 1..n |-> Pack32(e[i].window_size)])
                             \o Concat([i \in 1..n |-> Pack64(e[i].file_size)])),
             cdl |-> [cdl EXCEPT !.elements = groups.c]]
    IN  Emit(cdl.elements, Len(cdl.elements), GroupNums(cdl.elements))

\* the six columns of a chunk data list of n chunks
CdlColumns(n) ==
    Column("guid", n) \o Column("u64", n) \o Column("sha1", n)
    \o Column("u8", n) \o Column("u32", n) \o Column("u64", n)

CDL_read(bio, p0, manifest_version) ==
    LET Build(h, n, c) ==
            IF ~c.ok THEN RdFail(c.pos)
            ELSE RdOk([version |-> IF c.pos - p0 # h.v[1] THEN 0 ELSE h.v[2],
                       size |-> h.v[1], count |-> n,
                       manifest_version |-> manifest_version,
                       elements |-> [i \in 1..n |->
                           NewChunkInfo(c.v[i], c.v[n + i], c.v[2 * n + i],
                                        c.v[3 * n + i], c.v[4 * n + i],
                                        c.v[5 * n + i])]],
                      IF c.pos - p0 # h.v[1] THEN SeekEnd(bio, p0, h.v[1])
                      ELSE c.pos)
        Rest(h) ==
            IF ~h.ok \/ h.v[3] > Len(bio) THEN RdFail(h.pos)
            ELSE Build(h, h.v[3], RdSeq(bio, h.pos, CdlColumns(h.v[3])))
    IN  Rest(RdSeq(bio, p0, <<"u32", "u8", "u32">>))

-----------------------------------------------------------------------------
(* FML: the file manifest list *)

ChunkPartBytes(cp) ==
    Pack32(28) \o PackGuid(cp.guid) \o Pack32(cp.offset) \o Pack32(cp.size)

FML_write(fml) ==
    LET Emit(e, n) ==
            Sized(<<fml.version>> \o Pack32(n)
                  \o WrFstrings([i \in 1..n |-> e[i].filename])
                  \o WrFstrings([i \in 1..n |-> e[i].symlink_target])
                  \o Concat([i \in 1..n |-> e[i].hash])
                  \o [i \in 1..n |-> e[i].flags]
                  \o Concat([i \in 1..n |->
                         Pack32(Len(e[i].install_tags))
                         \o WrFstrings(e[i].install_tags)])
                  \o Concat([i \in 1..n |->
                         Pack32(Len(e[i].chunk_parts))
                         \o Concat([j \in 1..Len(e[i].chunk_parts) |->
                                       ChunkPartBytes(e[i].chunk_parts[j])])])
                  \o (IF fml.version >= 1
                      THEN Concat([i \in 1..n |->
                               IF e[i].hash_md5 # <<>>
                               THEN Pack32(1) \o e[i].hash_md5
                               ELSE Pack32(0)])
                           \o WrFstrings([i \in 1..n |-> e[i].mime_type])
                      ELSE <<>>)
                  \o (IF fml.version >= 2
                      THEN Concat([i \in 1..n |-> e[i].hash_sha256]) ELSE <<>>))
    IN  Emit(fml.elements, Len(fml.elements))

RECURSIVE SumSizes(_)
\* sum(c.size for c in fm.chunk_parts)
SumSizes(cps) ==
    IF cps = <<>> THEN 0 ELSE AddCap(Head(cps).size, SumSizes(Tail(cps)))

\* the columns of a file manifest list of n files at the given version
FmlColumns(n, version) ==
    Column("fstr", n) \o Column("fstr", n) \o Column("sha1", n)
    \o Column("u8", n) \o Column("fstrs", n) \o Column("parts", n)
    \o (IF version >= 1 THEN Column("md5", n) \o Column("fstr", n) ELSE <<>>)
    \o (IF version >= 2 THEN Column("sha256", n) ELSE <<>>)

FML_read(bio, p0) ==
    LET Build(h, n, c) ==
            IF ~c.ok THEN RdFail(c.pos)
            ELSE RdOk([version |-> IF c.pos - p0 # h.v[1] THEN 0 ELSE h.v[2],
                       size |-> h.v[1], count |-> n,
                       elements |-> [i \in 1..n |->
                           [filename |-> c.v[i], symlink_target |-> c.v[n + i],
                            hash |-> c.v[2 * n + i], flags |-> c.v[3 * n + i],
                            install_tags |-> c.v[4 * n + i],
                            chunk_parts |-> c.v[5 * n + i],
                            file_size |-> SumSizes(c.v[5 * n + i]),
                            hash_md5 |-> IF h.v[2] >= 1 THEN c.v[6 * n + i]
                                         ELSE <<>>,
                            mime_type |-> IF h.v[2] >= 1 THEN c.v[7 * n + i]
                                          ELSE <<>>,
                            hash_sha256 |-> IF h.v[2] >= 2 THEN c.v[8 * n + i]
                                            ELSE <<>>]]],
                      IF c.pos - p0 # h.v[1] THEN SeekEnd(bio, p0, h.v[1])
                      ELSE c.pos)
        Rest(h) ==
            IF ~h.ok \/ h.v[3] > Len(bio) THEN RdFail(h.pos)
            ELSE Build(h, h.v[3], RdSeq(bio, h.pos, FmlColumns(h.v[3], h.v[2])))
    IN  Rest(RdSeq(bio, p0, <<"u32", "u8", "u32">>))

-----------------------------------------------------------------------------
(* CustomFields: an ordered mapping, here a sequence of <<key, value>> *)

\* dict(zip(keys, values)): a later pair with the same key replaces the value
\* of the first and keeps its place
RECURSIVE DictOf(_)
DictOf(pairs) ==
    IF pairs = <<>> THEN <<>>
    ELSE LET Put(d, kv) ==
                 IF \E i \in 1..Len(d) : d[i][1] = kv[1]
                 THEN [i \in 1..Len(d) |-> IF d[i][1] = kv[1] THEN kv ELSE d[i]]
                 ELSE Append(d, kv)
         IN  Put(DictOf(SubSeq(pairs, 1, Len(pairs) - 1)), pairs[Len(pairs)])

CustomFields_write(cf) ==
    Sized(<<cf.version>> \o Pack32(Len(cf.dict))
          \o WrFstrings([i \in 1..Len(cf.dict) |-> cf.dict[i][1]])
          \o WrFstrings([i \in 1..Len(cf.dict) |-> cf.dict[i][2]]))

CustomFields_read(bio, p0) ==
    LET Build(h, n, c) ==
            IF ~c.ok THEN RdFail(c.pos)
            ELSE RdOk([version |-> IF c.pos - p0 # h.v[1] THEN 0 ELSE h.v[2],
                       size |-> h.v[1], count |-> n,
                       dict |-> DictOf([i \in 1..n |-> <<c.v[i], c.v[n + i]>>])],
                      IF c.pos - p0 # h.v[1] THEN SeekEnd(bio, p0, h.v[1])
                      ELSE c.pos)
        Rest(h) ==
            IF ~h.ok \/ h.v[3] > Len(bio) THEN RdFail(h.pos)
            ELSE Build(h, h.v[3],
                       RdSeq(bio, h.pos, Column("fstr", h.v[3] + h.v[3])))
    IN  Rest(RdSeq(bio, p0, <<"u32", "u8", "u32">>))

-----------------------------------------------------------------------------
(* Manifest *)

header_magic == 1153351692    \* 0x44BEC00C

default_serialisation_version == 17

\* Manifest.compressed
Manifest_compressed(m) == m.stored_as % 2

\* TargetVersion as it would be if the chain tested the smallest bump first
TargetVersionLowFirst(m) ==
    LET Clamp(t) == IF t > 21 THEN 21 ELSE t
        Raise(t0) ==
            IF m.meta.data_version = 1 THEN Max(18, t0)
            ELSE IF m.file_manifest_list.version = 1 THEN Max(19, t0)
            ELSE IF m.file_manifest_list.version = 2 THEN Max(20, t0)
            ELSE IF m.meta.data_version = 2 THEN Max(21, t0)
            ELSE t0
    IN  Clamp(Raise(Max(default_serialisation_version, m.meta.feature_level)))

\* Manifest.write target version: max(17, feature_level), raised by the first
\* matching branch of the if/elif chain, clamped to 21
TargetVersion(m) ==
    LET Clamp(t) == IF t > 21 THEN 21 ELSE t
        Raise(t0) ==
            IF m.meta.data_version = 2 THEN Max(21, t0)
            ELSE IF m.file_manifest_list.version = 2 THEN Max(20, t0)
            ELSE IF m.file_manifest_list.version = 1 THEN Max(19, t0)
            ELSE IF m.meta.data_version = 1 THEN Max(18, t0)
            ELSE t0
    IN  Clamp(Raise(Max(default_serialisation_version, m.meta.feature_level)))

\* the header_size field Manifest.write emits
HeaderSizeWritten(m) == m.header_size

\* the header Manifest.write emits for the object m at the target version
HeaderBytes(m, target_version) ==
    Pack32(header_magic) \o Pack32(HeaderSizeWritten(m))
    \o Pack32(m.size_uncompressed) \o Pack32(m.size_compressed)
    \o m.sha_hash \o <<m.stored_as>> \o Pack32(target_version)

\* Manifest.write(fp=None, compress): [ok, out, m]: the bytes returned and the
\* manifest object after the call
Manifest_write(m, compress) ==
    LET Out(ok, m1, target_version) ==
            [ok |-> ok, out |-> HeaderBytes(m1, target_version) \o m1.data,
             m |-> m1]
        Store(meta, cdl, body, data, comp) ==
            Out(cdl.ok,
                [m EXCEPT !.meta = meta, !.chunk_data_list = cdl.cdl,
                          !.data = data, !.size_uncompressed = Len(body),
                          !.size_compressed = Len(data), !.sha_hash = Sha1(body),
                          !.stored_as = IF comp /\ @ % 2 = 0 THEN @ + 1 ELSE @],
                meta.feature_level)
        Pack(meta, cdl, body, comp) ==
            Store(IF meta.data_version >= 1
                  THEN [meta EXCEPT !.build_id_cache = ManifestMeta_build_id(meta)]
                  ELSE meta,
                  cdl, body, IF comp THEN zlib_compress(body) ELSE body, comp)
        Body(meta, cdl) ==
            Pack(meta, cdl,
                 ManifestMeta_write(meta) \o cdl.bytes
                 \o FML_write(m.file_manifest_list)
                 \o CustomFields_write(m.custom_fields),
                 Manifest_compressed(m) = 1 \/ compress)
    IN  Body([m.meta EXCEPT !.feature_level = TargetVersion(m)],
             CDL_write(m.chunk_data_list))

EmptyManifest ==
    [header_size |-> 41, size_compressed |-> 0, size_uncompressed |-> 0,
     sha_hash |-> <<>>, stored_as |-> 0, version |-> 18, data |-> <<>>,
     meta |-> None, chunk_data_list |-> None, file_manifest_list |-> None,
     custom_fields |-> None]

ReadFailed == [ok |-> FALSE, m |-> EmptyManifest]

\* Manifest.read(data): [ok, m]; ok = FALSE for 'No header magic!', a failed
\* unpack, a zlib error or 'Hash does not match!'
Manifest_read(bytes) ==
    LET Data(h, raw) ==
            IF h.v[6] % 2 = 1
            THEN IF zlib_decompress(raw).ok
                    /\ Sha1(zlib_decompress(raw).v) = h.v[5]
                 THEN [ok |-> TRUE, v |-> zlib_decompress(raw).v]
                 ELSE [ok |-> FALSE, v |-> <<>>]
            ELSE [ok |-> TRUE, v |-> raw]
        Build(h, d) ==
            IF ~d.ok THEN ReadFailed
            ELSE [ok |-> TRUE,
                  m |-> [EmptyManifest EXCEPT !.header_size = h.v[2],
                             !.size_uncompressed = h.v[3],
                             !.size_compressed = h.v[4], !.sha_hash = h.v[5],
                             !.stored_as = h.v[6], !.version = h.v[7],
                             !.data = d.v]]
        Rest(magic, h) ==
            IF ~magic.ok \/ magic.v # Pack32(header_magic) \/ ~h.ok THEN ReadFailed
            ELSE Build(h, Data(h, BioRead(bytes,
                                   IF h.pos # h.v[2] THEN SeekEnd(bytes, 0, h.v[2])
                                   ELSE h.pos,
                                   Len(bytes))))
    IN  Rest(RdRaw(bytes, 0, 4),
             RdSeq(bytes, 0, <<"u32", "u32", "u32", "u32", "sha1", "u8", "u32">>))

\* Manifest.read_all(data): [ok, m]
Manifest_read_all(bytes) ==
    LET Build(r, meta, cdl, fml, cf) ==
            IF ~cf.ok THEN ReadFailed
            ELSE [ok |-> TRUE,
                  m |-> [r.m EXCEPT !.meta = meta.v, !.chunk_data_list = cdl.v,
                                    !.file_manifest_list = fml.v,
                                    !.custom_fields = cf.v, !.data = <<>>]]
        Custom(r, meta, cdl, fml) ==
            IF ~fml.ok THEN ReadFailed
            ELSE Build(r, meta, cdl, fml, CustomFields_read(r.m.data, fml.pos))
        Files(r, meta, cdl) ==
            IF ~cdl.ok THEN ReadFailed
            ELSE Custom(r, meta, cdl, FML_read(r.m.data, cdl.pos))
        Chunks(r, meta) ==
            IF ~meta.ok THEN ReadFailed
            ELSE Files(r, meta, CDL_read(r.m.data, meta.pos, meta.v.feature_level))
        Meta(r) ==
            IF ~r.ok THEN ReadFailed
            ELSE Chunks(r, ManifestMeta_read(r.m.data, 0))
    IN  Meta(Manifest_read(bytes))

\* CDL.get_chunk_by_guid_num builds its index from chunk.guid_num of every chunk
CDL_touch_guid_nums(cdl) ==
    [cdl EXCEPT !.elements =
        [i \in 1..Len(cdl.elements) |-> ChunkInfo_guid_num(cdl.elements[i])]]

-----------------------------------------------------------------------------
(* DLManager: file names, patterns and tasks *)

\* str.lower() on the code points the model's names are made of
Lower(s) ==
    [i \in 1..Len(s) |->
        IF s[i] \in 65..90 \/ (s[i] \in 192..222 /\ s[i] # 215) THEN s[i] + 32
        ELSE s[i]]

StartsWith(s, p) == Len(p) <= Len(s) /\ SubSeq(s, 1, Len(p)) = p

EndsWith(s, p) == Len(p) <= Len(s) /\ SubSeq(s, Len(s) - Len(p) + 1, Len(s)) = p

\* a < b for Python strings: code point by code point
RECURSIVE SeqLess(_, _)
SeqLess(a, b) ==
    IF b = <<>> THEN FALSE
    ELSE IF a = <<>> THEN TRUE
    ELSE IF a[1] # b[1] THEN a[1] < b[1]
    ELSE SeqLess(Tail(a), Tail(b))

\* sorted(S) for a set of strings
RECURSIVE SortedNames(_)
SortedNames(S) ==
    IF S = {} THEN <<>>
    ELSE SortedNames(S \ {CHOOSE m \in S : \A x \in S : ~SeqLess(m, x)})
         \o <<CHOOSE m \in S : \A x \in S : ~SeqLess(m, x)>>

\* s.rfind('/') + 1
AfterLastSlash(s) ==
    IF \E i \in 1..Len(s) : s[i] = 47
    THEN CHOOSE i \in 1..Len(s) : s[i] = 47 /\ \A j \in (i + 1)..Len(s) : s[j] # 47
    ELSE 0

RECURSIVE RStripSlash(_)
RStripSlash(s) ==
    IF s # <<>> /\ s[Len(s)] = 47 THEN RStripSlash(SubSeq(s, 1, Len(s) - 1)) ELSE s

\* os.path.dirname: the head up to the last '/', trailing slashes stripped
\* unless the head is made of slashes only
dirname(p) ==
    IF \A i \in 1..AfterLastSlash(p) : p[i] = 47 THEN SubSeq(p, 1, AfterLastSlash(p))
    ELSE RStripSlash(SubSeq(p, 1, AfterLastSlash(p)))

basename(p) == Drop(p, AfterLastSlash(p))

\* fnmatch on patterns made of literals, '*' and '?'
RECURSIVE fnmatch(_, _)
fnmatch(name, pat) ==
    IF pat = <<>> THEN name = <<>>
    ELSE IF pat[1] = 42
         THEN fnmatch(name, Tail(pat)) \/ (name # <<>> /\ fnmatch(Tail(name), pat))
    ELSE IF name = <<>> THEN FALSE
    ELSE (pat[1] = 63 \/ pat[1] = name[1]) /\ fnmatch(Tail(name), Tail(pat))

\* DLManager.matches(file, excludelist)
matches(file, excludelist) ==
    \E k \in 1..Len(excludelist) :
        IF /\ \E i \in 1..Len(file) : file[i] = 47
           /\ ~EndsWith(excludelist[k], <<42>>)
           /\ ~StartsWith(excludelist[k], <<42>>)
        THEN /\ dirname(file) = dirname(excludelist[k])
             /\ fnmatch(basename(file), basename(excludelist[k]))
        ELSE fnmatch(file, excludelist[k])

\* the suffix '.tmp'
DotTmp == <<46, 116, 109, 112>>

\* FileTask(filename, flags, old_file=None); flags is the set of TaskFlags
\* names that are set, a missing old_file is the empty string
FileTask(filename, flags, old_file) ==
    [kind |-> "file", filename |-> filename, flags |-> flags, old_file |-> old_file,
     chunk_guid |-> 0, chunk_offset |-> 0, chunk_size |-> 0, cleanup |-> FALSE,
     chunk_file |-> <<>>]

\* ChunkTask(chunk_guid, chunk_offset, chunk_size) with cleanup and chunk_file
\* as the planner assigns them; a missing chunk_file is the empty string
ChunkTask(chunk_guid, chunk_offset, chunk_size, cleanup, chunk_file) ==
    [kind |-> "chunk", filename |-> <<>>, flags |-> {}, old_file |-> <<>>,
     chunk_guid |-> chunk_guid, chunk_offset |-> chunk_offset,
     chunk_size |-> chunk_size, cleanup |-> cleanup, chunk_file |-> chunk_file]

-----------------------------------------------------------------------------
(* Manifests as the planner reads them *)

\* FML.get_file_by_path: the path map keeps the last index of a name
HasPath(elems, path) == \E i \in 1..Len(elems) : elems[i].filename = path

get_file_by_path(elems, path) ==
    elems[CHOOSE i \in 1..Len(elems) :
            /\ elems[i].filename = path
            /\ \A j \in (i + 1)..Len(elems) : elems[j].filename # path]

\* FileManifest.executable
executable(fm) == (fm.flags \div 4) % 2 = 1

\* the guid numbers of a file's chunk parts, in order
PartGuids(fm) == [i \in 1..Len(fm.chunk_parts) |-> GuidNumOf(fm.chunk_parts[i].guid)]

RECURSIVE SumSeq(_)
SumSeq(s) == IF s = <<>> THEN 0 ELSE Head(s) + SumSeq(Tail(s))

RECURSIVE MaxSeq(_)
MaxSeq(s) == IF Len(s) = 1 THEN s[1] ELSE Max(Head(s), MaxSeq(Tail(s)))

-----------------------------------------------------------------------------
(* ManifestComparison.create *)

EmptyComparison == [added |-> {}, removed |-> {}, changed |-> {}, unchanged |-> {}]

\* {fm.filename: fm.hash for fm in elements}
HashByName(elems) ==
    [n \in {elems[i].filename : i \in 1..Len(elems)} |-> get_file_by_path(elems, n).hash]

\* one file of the new manifest against what is left of old_files
CompareOne(fm, old_files, comp) ==
    IF fm.filename \in DOMAIN old_files /\ old_files[fm.filename] # <<>>
    THEN IF fm.hash = old_files[fm.filename]
         THEN [comp EXCEPT !.unchanged = @ \cup {fm.filename}]
         ELSE [comp EXCEPT !.changed = @ \cup {fm.filename}]
    ELSE [comp EXCEPT !.added = @ \cup {fm.filename}]

RECURSIVE CompareFiles(_, _, _)
CompareFiles(elems, old_files, comp) ==
    IF elems = <<>> THEN [comp EXCEPT !.removed = DOMAIN old_files]
    ELSE CompareFiles(Tail(elems),
                      [n \in DOMAIN old_files \ {Head(elems).filename} |-> old_files[n]],
                      CompareOne(Head(elems), old_files, comp))

\* old_manifest is <<>> for None and <<m>> for a manifest m
ManifestComparison_create(manifest, old_manifest) ==
    IF old_manifest = <<>>
    THEN [EmptyComparison EXCEPT
             !.added = {manifest.file_manifest_list.elements[i].filename :
                           i \in 1..Len(manifest.file_manifest_list.elements)}]
    ELSE CompareFiles(manifest.file_manifest_list.elements,
                      HashByName(old_manifest[1].file_manifest_list.elements),
                      EmptyComparison)

-----------------------------------------------------------------------------
(* DLManager.run_analysis: resume journal, missing-file probe and filters *)

\* os.path.exists(os.path.join(dl_dir, name)); the empty name is dl_dir itself
Exists(files, name) == name = <<>> \/ name \in DOMAIN files

HexDigit(n) == IF n < 10 THEN 48 + n ELSE 87 + n

\* bytes.hex()
Hex(h) == Concat([i \in 1..Len(h) |-> <<HexDigit(h[i] \div 16), HexDigit(h[i] % 16)>>])

IsSpace(c) == c \in {9, 10, 11, 12, 13, 32}

\* str.strip()
RECURSIVE Strip(_)
Strip(s) ==
    IF s # <<>> /\ IsSpace(s[1]) THEN Strip(Tail(s))
    ELSE IF s # <<>> /\ IsSpace(s[Len(s)]) THEN Strip(SubSeq(s, 1, Len(s) - 1))
    ELSE s

\* position of the first ':' of s, Len(s) + 1 when there is none
FirstColon(s) ==
    IF \E i \in 1..Len(s) : s[i] = 58
    THEN CHOOSE i \in 1..Len(s) : s[i] = 58 /\ \A j \in 1..(i - 1) : s[j] # 58
    ELSE Len(s) + 1

\* line.strip().partition(':') of one journal line: [file_hash, filename]
JournalEntry(line) ==
    [file_hash |-> SubSeq(Strip(line), 1, FirstColon(Strip(line)) - 1),
     filename |-> Drop(Strip(line), FirstColon(Strip(line)))]

\* the entries of the journal whose file exists under dl_dir
ExistingEntries(conf) ==
    {e \in {JournalEntry(conf.resume_lines[k]) : k \in 1..Len(conf.resume_lines)} :
        Exists(conf.disk, e.filename)}

\* SkipFiles as it would be without 'mc.changed -= skip'
SkipFilesKeepChanged(mc, skip) ==
    [mc EXCEPT !.added = @ \ skip, !.unchanged = @ \cup skip]

\* mc.added -= skip; mc.changed -= skip; mc.unchanged |= skip
SkipFiles(mc, skip) ==
    [mc EXCEPT !.added = @ \ skip, !.changed = @ \ skip, !.unchanged = @ \cup skip]

FileNames(manifest) ==
    {manifest.file_manifest_list.elements[i].filename :
        i \in 1..Len(manifest.file_manifest_list.elements)}

\* the files of the manifest that are not on disk and not in mc.added
MissingFiles(conf, mc) ==
    {n \in FileNames(conf.manifest) : n \notin mc.added /\ ~Exists(conf.disk, n)}

\* the resume journal when there is one, the probe for missing files otherwise;
\* resume_file is "unset" (no path configured), "absent", "unreadable" or
\* "present"
Resumed(conf, mc) ==
    IF conf.resume /\ conf.resume_file \in {"unreadable", "present"}
    THEN IF \/ conf.resume_file = "unreadable"
            \/ \E e \in ExistingEntries(conf) :
                  ~HasPath(conf.manifest.file_manifest_list.elements, e.filename)
         THEN mc
         ELSE SkipFiles(mc, {e.filename : e \in
                  {x \in ExistingEntries(conf) :
                      x.file_hash = Hex(get_file_by_path(
                          conf.manifest.file_manifest_list.elements, x.filename).hash)}})
    ELSE IF conf.resume
         THEN [mc EXCEPT !.added = @ \cup MissingFiles(conf, mc),
                         !.changed = @ \ MissingFiles(conf, mc),
                         !.unchanged = @ \ MissingFiles(conf, mc)]
         ELSE mc

\* TagSkips as it would be if the empty tag selected nothing
TagSkipsTagged(conf) ==
    IF conf.file_install_tag = <<>> THEN {}
    ELSE {fm.filename : fm \in
            {f \in Range(conf.manifest.file_manifest_list.elements) :
                ~\E k \in 1..Len(conf.file_install_tag[1]) :
                    conf.file_install_tag[1][k] \in Range(f.install_tags)}}

\* the files no given tag selects; file_install_tag is <<>> for None and
\* <<tags>> for a list of tags (a single string is the list of that string)
TagSkips(conf) ==
    IF conf.file_install_tag = <<>> THEN {}
    ELSE {fm.filename : fm \in
            {f \in Range(conf.manifest.file_manifest_list.elements) :
                ~\E k \in 1..Len(conf.file_install_tag[1]) :
                    \/ conf.file_install_tag[1][k] \in Range(f.install_tags)
                    \/ conf.file_install_tag[1][k] = <<>> /\ f.install_tags = <<>>}}

\* the files whose lower-cased name starts with one of the lower-cased prefixes
PrefixFiles(manifest, prefixes) ==
    {n \in FileNames(manifest) :
        \E k \in 1..Len(prefixes) : StartsWith(Lower(n), Lower(prefixes[k]))}

ExcludeSkips(conf) ==
    IF conf.file_exclude_filter = <<>> THEN {}
    ELSE PrefixFiles(conf.manifest, conf.file_exclude_filter)

ConfiguredSkips(conf) ==
    IF conf.file_exclude_configured = <<>> THEN {}
    ELSE {n \in FileNames(conf.manifest) :
            matches(Lower(n), [k \in 1..Len(conf.file_exclude_configured) |->
                                  Lower(conf.file_exclude_configured[k])])}

IncludeSkips(conf) ==
    IF conf.file_prefix_filter = <<>> THEN {}
    ELSE FileNames(conf.manifest) \ PrefixFiles(conf.manifest, conf.file_prefix_filter)

\* the four filters in the order they are applied
Filtered(conf, mc) ==
    SkipFiles(SkipFiles(SkipFiles(SkipFiles(mc, TagSkips(conf)), ExcludeSkips(conf)),
                        ConfiguredSkips(conf)), IncludeSkips(conf))

\* FileTask(fname, DELETE_FILE | SILENT) for every file skipped by install tag
additional_deletion_tasks(conf) ==
    [i \in 1..Cardinality(TagSkips(conf)) |->
        FileTask(SortedNames(TagSkips(conf))[i], {"DELETE_FILE", "SILENT"}, <<>>)]

FileSizes(elems) == [i \in 1..Len(elems) |-> elems[i].file_size]

\* install_size as the size of the added files, with and without a filter
install_size_added(conf, mc) ==
    SumSeq(FileSizes(SelectSeq(conf.manifest.file_manifest_list.elements,
                               LAMBDA fm : fm.filename \in mc.added)))

\* install_size: all files, or after filtering the added files only
install_size(conf, mc) ==
    IF \/ conf.file_prefix_filter # <<>>
       \/ conf.file_exclude_filter # <<>>
       \/ (conf.file_install_tag # <<>> /\ conf.file_install_tag[1] # <<>>)
    THEN SumSeq(FileSizes(SelectSeq(conf.manifest.file_manifest_list.elements,
                                    LAMBDA fm : fm.filename \in mc.added)))
    ELSE SumSeq(FileSizes(conf.manifest.file_manifest_list.elements))

-----------------------------------------------------------------------------
(* DLManager.run_analysis: processing order and reference counts *)

\* the number of elements of `sorted` whose key is not above the key of fm
KeysNotAbove(sorted, fm) ==
    Cardinality({i \in 1..Len(sorted) :
                    ~SeqLess(Lower(fm.filename), Lower(sorted[i].filename))})

\* fm put behind the elements of `sorted` whose key is not above its own
InsertByName(sorted, fm) ==
    Take(sorted, KeysNotAbove(sorted, fm)) \o <<fm>>
    \o Drop(sorted, KeysNotAbove(sorted, fm))

\* sorted(elements, key=lambda a: a.filename.lower()): a stable sort
RECURSIVE SortedByName(_)
SortedByName(elems) ==
    IF elems = <<>> THEN <<>>
    ELSE InsertByName(SortedByName(SubSeq(elems, 1, Len(elems) - 1)), elems[Len(elems)])

\* every guid number a chunk part of the manifest names
AllGuids(manifest) ==
    UNION {Range(PartGuids(fm)) : fm \in Range(manifest.file_manifest_list.elements)}

\* references[cp.guid_num] += 1 for every chunk part of a file
AddRefs(references, guids) ==
    [g \in DOMAIN references |->
        references[g] + Cardinality({i \in 1..Len(guids) : guids[i] = g})]

\* CountOne with the size of an unchanged file counted as re-used
CountOneAsReuse(fm, mc, old_manifest, acc) ==
    IF fm.filename \in mc.unchanged
    THEN [acc EXCEPT !.reuse_size = @ + fm.file_size]
    ELSE IF fm.filename \in mc.added
    THEN [acc EXCEPT !.references = AddRefs(@, PartGuids(fm)),
                     !.current_tmp_size = @ + fm.file_size,
                     !.disk_space_delta = Max(@, acc.current_tmp_size + fm.file_size)]
    ELSE IF fm.filename \in mc.changed
    THEN [acc EXCEPT !.references = AddRefs(@, PartGuids(fm)),
                     !.current_tmp_size = @ + fm.file_size
                         - get_file_by_path(old_manifest[1].file_manifest_list.elements,
                                            fm.filename).file_size,
                     !.disk_space_delta = Max(@, acc.current_tmp_size + fm.file_size)]
    ELSE [acc EXCEPT !.references = AddRefs(@, PartGuids(fm))]

\* one file of the reference-count loop; acc carries references, the unchanged
\* figure of the result, current_tmp_size and disk_space_delta
CountOne(fm, mc, old_manifest, acc) ==
    IF fm.filename \in mc.unchanged
    THEN [acc EXCEPT !.unchanged = @ + fm.file_size]
    ELSE IF fm.filename \in mc.added
    THEN [acc EXCEPT !.references = AddRefs(@, PartGuids(fm)),
                     !.current_tmp_size = @ + fm.file_size,
                     !.disk_space_delta = Max(@, acc.current_tmp_size + fm.file_size)]
    ELSE IF fm.filename \in mc.changed
    THEN [acc EXCEPT !.references = AddRefs(@, PartGuids(fm)),
                     !.current_tmp_size = @ + fm.file_size
                         - get_file_by_path(old_manifest[1].file_manifest_list.elements,
                                            fm.filename).file_size,
                     !.disk_space_delta = Max(@, acc.current_tmp_size + fm.file_size)]
    ELSE [acc EXCEPT !.references = AddRefs(@, PartGuids(fm))]

RECURSIVE CountRefs(_, _, _, _)
CountRefs(fmlist, mc, old_manifest, acc) ==
    IF fmlist = <<>> THEN acc
    ELSE CountRefs(Tail(fmlist), mc, old_manifest,
                   CountOne(Head(fmlist), mc, old_manifest, acc))

\* self.hash_map[fm.filename] = fm.sha_hash.hex()
HashMap(manifest) ==
    [n \in FileNames(manifest) |->
        Hex(get_file_by_path(manifest.file_manifest_list.elements, n).hash)]

min_overlap == 4

cp_threshold == 5

TooManyFiles == 100000

\* {cp.guid_num for cp in fm.chunk_parts} as remaining_files holds it for a name
ChunkSet(fmlist, name) == Range(PartGuids(get_file_by_path(fmlist, name)))

\* the keys of remaining_files in insertion order
RECURSIVE RemainingNames(_, _, _)
RemainingNames(fmlist, mc, seen) ==
    IF fmlist = <<>> THEN <<>>
    ELSE IF Head(fmlist).filename \in mc.unchanged \cup seen
    THEN RemainingNames(Tail(fmlist), mc, seen)
    ELSE <<Head(fmlist).filename>>
         \o RemainingNames(Tail(fmlist), mc, seen \cup {Head(fmlist).filename})

Without(names, n) == SelectSeq(names, LAMBDA x : x # n)

\* BestMatch as it would be if an overlap of min_overlap were enough
BestMatchFromMin(f_chunks, remaining, all) ==
    IF \E i \in 1..Len(remaining) :
          /\ Cardinality(ChunkSet(all, remaining[i])) >= cp_threshold
          /\ Cardinality(f_chunks \cap ChunkSet(all, remaining[i])) >= min_overlap
    THEN remaining[CHOOSE i \in 1..Len(remaining) :
            /\ Cardinality(ChunkSet(all, remaining[i])) >= cp_threshold
            /\ Cardinality(f_chunks \cap ChunkSet(all, remaining[i])) >= min_overlap
            /\ \A j \in 1..Len(remaining) :
                  Cardinality(ChunkSet(all, remaining[j])) >= cp_threshold =>
                     \/ Cardinality(f_chunks \cap ChunkSet(all, remaining[j]))
                          < Cardinality(f_chunks \cap ChunkSet(all, remaining[i]))
                     \/ /\ Cardinality(f_chunks \cap ChunkSet(all, remaining[j]))
                             = Cardinality(f_chunks \cap ChunkSet(all, remaining[i]))
                        /\ i <= j]
    ELSE <<>>

\* the partner of a file: the first remaining file of at least cp_threshold
\* chunks with the largest overlap above min_overlap; <<>> when there is none
BestMatch(f_chunks, remaining, all) ==
    IF \E i \in 1..Len(remaining) :
          /\ Cardinality(ChunkSet(all, remaining[i])) >= cp_threshold
          /\ Cardinality(f_chunks \cap ChunkSet(all, remaining[i])) > min_overlap
    THEN remaining[CHOOSE i \in 1..Len(remaining) :
            /\ Cardinality(ChunkSet(all, remaining[i])) >= cp_threshold
            /\ Cardinality(f_chunks \cap ChunkSet(all, remaining[i])) > min_overlap
            /\ \A j \in 1..Len(remaining) :
                  Cardinality(ChunkSet(all, remaining[j])) >= cp_threshold =>
                     \/ Cardinality(f_chunks \cap ChunkSet(all, remaining[j]))
                          < Cardinality(f_chunks \cap ChunkSet(all, remaining[i]))
                     \/ /\ Cardinality(f_chunks \cap ChunkSet(all, remaining[j]))
                             = Cardinality(f_chunks \cap ChunkSet(all, remaining[i]))
                        /\ i <= j]
    ELSE <<>>

\* WithPartner as it would be if the partner took the place of the file
WithPartnerAlone(fm, match, manifest) ==
    IF match = <<>> THEN <<fm>>
    ELSE <<get_file_by_path(manifest.file_manifest_list.elements, match)>>

\* the file and, when it has one, its partner
WithPartner(fm, match, manifest) ==
    IF match = <<>> THEN <<fm>>
    ELSE <<fm, get_file_by_path(manifest.file_manifest_list.elements, match)>>

\* the reordering loop over fmlist; remaining is remaining_files, all the
\* sorted list the chunk sets were taken from
RECURSIVE Reorder(_, _, _, _)
Reorder(fmlist, remaining, all, manifest) ==
    IF fmlist = <<>> THEN <<>>
    ELSE IF Head(fmlist).filename \notin Range(remaining)
    THEN Reorder(Tail(fmlist), remaining, all, manifest)
    ELSE IF Cardinality(ChunkSet(all, Head(fmlist).filename)) < cp_threshold
    THEN <<Head(fmlist)>>
         \o Reorder(Tail(fmlist), Without(remaining, Head(fmlist).filename), all, manifest)
    ELSE WithPartner(Head(fmlist),
                     BestMatch(ChunkSet(all, Head(fmlist).filename),
                               Without(remaining, Head(fmlist).filename), all),
                     manifest)
         \o Reorder(Tail(fmlist),
                    Without(Without(remaining, Head(fmlist).filename),
                            BestMatch(ChunkSet(all, Head(fmlist).filename),
                                      Without(remaining, Head(fmlist).filename), all)),
                    all, manifest)

\* fmlist as the loops after line 319 walk it
ProcessingOrder(conf, mc) ==
    IF /\ conf.processing_optimization
       /\ Len(conf.manifest.file_manifest_list.elements) <= TooManyFiles
    THEN Reorder(SortedByName(conf.manifest.file_manifest_list.elements),
                 RemainingNames(SortedByName(conf.manifest.file_manifest_list.elements),
                                mc, {}),
                 SortedByName(conf.manifest.file_manifest_list.elements),
                 conf.manifest)
    ELSE SortedByName(conf.manifest.file_manifest_list.elements)

-----------------------------------------------------------------------------
(* DLManager.run_analysis: reuse of old and of written files *)

\* key = (cp.guid_num, cp.offset, cp.size)
Key(cp) == <<GuidNumOf(cp.guid), cp.offset, cp.size>>

\* the chunk parts of a file as (guid, offset in the file, cp.offset,
\* cp.offset + cp.size), the file offset accumulated from the sizes
Spans(name, cps) ==
    [i \in 1..Len(cps) |->
        [guid |-> GuidNumOf(cps[i].guid), file |-> name,
         off |-> SumSizes(SubSeq(cps, 1, i - 1)),
         lo |-> cps[i].offset, hi |-> cps[i].offset + cps[i].size]]

\* index of the first span of the guid of cp that wholly contains cp, or 0
FirstContaining(spans, cp) ==
    IF \E i \in 1..Len(spans) :
          /\ spans[i].guid = GuidNumOf(cp.guid)
          /\ spans[i].lo <= cp.offset /\ cp.offset + cp.size <= spans[i].hi
    THEN CHOOSE i \in 1..Len(spans) :
          /\ spans[i].guid = GuidNumOf(cp.guid)
          /\ spans[i].lo <= cp.offset /\ cp.offset + cp.size <= spans[i].hi
          /\ \A j \in 1..(i - 1) :
                ~(/\ spans[j].guid = GuidNumOf(cp.guid)
                  /\ spans[j].lo <= cp.offset /\ cp.offset + cp.size <= spans[j].hi)
    ELSE 0

\* one chunk part of a changed file against the parts of its old version;
\* acc carries references, re_usable and reuse_size
ReuseOne(name, cp, spans, k, acc) ==
    IF k = 0 THEN acc
    ELSE [acc EXCEPT !.references[GuidNumOf(cp.guid)] = @ - 1,
                     !.re_usable = (<<name, Key(cp)>> :>
                                      (spans[k].off + (cp.offset - spans[k].lo))) @@ @,
                     !.reuse_size = @ + cp.size]

RECURSIVE ReuseParts(_, _, _, _)
ReuseParts(name, cps, spans, acc) ==
    IF cps = <<>> THEN acc
    ELSE ReuseParts(name, Tail(cps), spans,
                    ReuseOne(name, Head(cps), spans, FirstContaining(spans, Head(cps)),
                             acc))

\* the loop over mc.changed, taken in sorted order: the steps commute
RECURSIVE ReuseOld(_, _, _, _)
ReuseOld(changed, manifest, old_manifest, acc) ==
    IF changed = <<>> THEN acc
    ELSE ReuseOld(Tail(changed), manifest, old_manifest,
            ReuseParts(Head(changed),
                       get_file_by_path(manifest.file_manifest_list.elements,
                                        Head(changed)).chunk_parts,
                       Spans(Head(changed),
                             get_file_by_path(old_manifest[1].file_manifest_list.elements,
                                              Head(changed)).chunk_parts),
                       acc))

\* re_usable, with the references and reuse_size it leaves
Reused(conf, mc, acc) ==
    IF conf.old_manifest # <<>> /\ mc.changed # {} /\ conf.patch
    THEN ReuseOld(SortedNames(mc.changed), conf.manifest, conf.old_manifest, acc)
    ELSE acc

\* one chunk part of cur_file against the parts written by the files before
\* it; acc carries references, reusable_written and cur_written_cps
WrittenOne(name, cp, k, acc) ==
    IF k = 0 THEN acc
    ELSE [acc EXCEPT
            !.references[GuidNumOf(cp.guid)] = @ - 1,
            !.reusable_written =
                (<<name, Key(cp)>> :>
                    <<acc.cur_written_cps[GuidNumOf(cp.guid)][k].file,
                      acc.cur_written_cps[GuidNumOf(cp.guid)][k].off
                        + (cp.offset - acc.cur_written_cps[GuidNumOf(cp.guid)][k].lo)>>)
                @@ @]

RECURSIVE WrittenParts(_, _, _)
WrittenParts(name, cps, acc) ==
    IF cps = <<>> THEN acc
    ELSE WrittenParts(name, Tail(cps),
            WrittenOne(name, Head(cps),
                       FirstContaining(acc.cur_written_cps[GuidNumOf(Head(cps).guid)],
                                       Head(cps)),
                       acc))

\* cur_file_cps: for every guid of the file the last of its parts
LastSpans(spans, g) ==
    IF \E i \in 1..Len(spans) : spans[i].guid = g
    THEN <<spans[CHOOSE i \in 1..Len(spans) :
              spans[i].guid = g /\ \A j \in (i + 1)..Len(spans) : spans[j].guid # g]>>
    ELSE <<>>

\* cur_written_cps[guid].append(value) for the parts of one finished file
AppendWritten(acc, spans) ==
    [acc EXCEPT !.cur_written_cps =
        [g \in DOMAIN @ |-> @[g] \o LastSpans(spans, g)]]

RECURSIVE WrittenFiles(_, _)
WrittenFiles(fmlist, acc) ==
    IF fmlist = <<>> THEN acc
    ELSE WrittenFiles(Tail(fmlist),
            AppendWritten(WrittenParts(Head(fmlist).filename, Head(fmlist).chunk_parts,
                                       acc),
                          Spans(Head(fmlist).filename, Head(fmlist).chunk_parts)))

\* reusable_written, with the references it leaves
Written(conf, fmlist, acc) == IF conf.read_files THEN WrittenFiles(fmlist, acc) ELSE acc

-----------------------------------------------------------------------------
(* DLManager.run_analysis: task emission and the cache simulation *)

MiB == 1048576

\* EnsureQueued as it would be without the set chunks_in_dl_list
EnsureQueuedAgain(st, g) ==
    [st EXCEPT !.chunks_to_dl = Append(@, g),
               !.chunks_in_dl_list = @ \cup {g}]

\* chunks_to_dl.append(guid) unless the guid is in chunks_in_dl_list
EnsureQueued(st, g) ==
    IF g \in st.chunks_in_dl_list THEN st
    ELSE [st EXCEPT !.chunks_to_dl = Append(@, g),
                    !.chunks_in_dl_list = @ \cup {g}]

\* the cache accounting of one chunk part that is taken from the download
CacheStep(st, cp, g, biggest_chunk) ==
    IF st.references[g] > 1 \/ g \in st.cached
    THEN IF st.references[g] - 1 < 1
         THEN [st EXCEPT
                 !.references[g] = @ - 1,
                 !.current_cache_size = @ - biggest_chunk,
                 !.cached = @ \ {g},
                 !.chunk_tasks = Append(@, ChunkTask(g, cp.offset, cp.size, TRUE, <<>>))]
         ELSE IF g \notin st.cached
         THEN [st EXCEPT
                 !.references[g] = @ - 1,
                 !.dl_cache_guids = @ \cup {g},
                 !.cached = @ \cup {g},
                 !.current_cache_size = @ + biggest_chunk,
                 !.chunk_tasks = Append(@, ChunkTask(g, cp.offset, cp.size, FALSE, <<>>))]
         ELSE [st EXCEPT
                 !.references[g] = @ - 1,
                 !.chunk_tasks = Append(@, ChunkTask(g, cp.offset, cp.size, FALSE, <<>>))]
    ELSE [st EXCEPT
            !.chunk_tasks = Append(@, ChunkTask(g, cp.offset, cp.size, TRUE, <<>>))]

\* one chunk part of current_file
EmitPart(st, name, cp, biggest_chunk) ==
    IF <<name, Key(cp)>> \in DOMAIN st.re_usable
    THEN [st EXCEPT
            !.reused = @ + 1,
            !.chunk_tasks = Append(@, ChunkTask(GuidNumOf(cp.guid),
                                                st.re_usable[<<name, Key(cp)>>],
                                                cp.size, FALSE, name))]
    ELSE IF <<name, Key(cp)>> \in DOMAIN st.reusable_written
    THEN [st EXCEPT
            !.chunk_tasks = Append(@, ChunkTask(GuidNumOf(cp.guid),
                                                st.reusable_written[<<name, Key(cp)>>][2],
                                                cp.size, FALSE,
                                                st.reusable_written[<<name, Key(cp)>>][1]))]
    ELSE CacheStep(EnsureQueued(st, GuidNumOf(cp.guid)), cp, GuidNumOf(cp.guid),
                   biggest_chunk)

RECURSIVE EmitParts(_, _, _, _)
EmitParts(st, name, cps, biggest_chunk) ==
    IF cps = <<>> THEN st
    ELSE EmitParts(EmitPart(st, name, Head(cps), biggest_chunk), name, Tail(cps),
                   biggest_chunk)

\* Framed without the temporary file
FramedInPlace(fm, chunk_tasks, reused) ==
    <<FileTask(fm.filename, {"OPEN_FILE"}, <<>>)>> \o chunk_tasks
    \o <<FileTask(fm.filename, {"CLOSE_FILE"}, <<>>)>>
    \o (IF executable(fm) THEN <<FileTask(fm.filename, {"MAKE_EXECUTABLE"}, <<>>)>>
        ELSE <<>>)

\* the file tasks around the chunk tasks of a file
Framed(fm, chunk_tasks, reused) ==
    (IF reused > 0
     THEN <<FileTask(fm.filename \o DotTmp, {"OPEN_FILE"}, <<>>)>> \o chunk_tasks
          \o <<FileTask(fm.filename \o DotTmp, {"CLOSE_FILE"}, <<>>),
               FileTask(fm.filename, {"RENAME_FILE", "DELETE_FILE"},
                        fm.filename \o DotTmp)>>
     ELSE <<FileTask(fm.filename, {"OPEN_FILE"}, <<>>)>> \o chunk_tasks
          \o <<FileTask(fm.filename, {"CLOSE_FILE"}, <<>>)>>)
    \o (IF executable(fm) THEN <<FileTask(fm.filename, {"MAKE_EXECUTABLE"}, <<>>)>>
        ELSE <<>>)

\* the end of one file: its tasks join the stream, the high-water mark is taken
CloseFile(st, fm) ==
    [st EXCEPT !.tasks = @ \o Framed(fm, st.chunk_tasks, st.reused),
               !.last_cache_size = Max(@, st.current_cache_size)]

\* one file of the emission loop
EmitFile(st, fm, mc, biggest_chunk) ==
    IF fm.filename \in mc.unchanged THEN st
    ELSE IF fm.chunk_parts = <<>>
    THEN [st EXCEPT !.tasks = Append(@, FileTask(fm.filename, {"CREATE_EMPTY_FILE"}, <<>>))]
    ELSE CloseFile(EmitParts([st EXCEPT !.chunk_tasks = <<>>, !.reused = 0],
                             fm.filename, fm.chunk_parts, biggest_chunk),
                   fm)

RECURSIVE EmitFiles(_, _, _, _)
EmitFiles(st, fmlist, mc, biggest_chunk) ==
    IF fmlist = <<>> THEN st
    ELSE EmitFiles(EmitFile(st, Head(fmlist), mc, biggest_chunk), Tail(fmlist), mc,
                   biggest_chunk)

\* analysis_res.min_memory
MinMemory(last_cache_size) == last_cache_size + 32 * MiB

\* a guard that also fails when the arena holds min_memory exactly
GuardFailsAtLimit(min_memory, max_shared_memory) == min_memory >= max_shared_memory

\* the memory guard: MemoryError is raised
GuardFails(min_memory, max_shared_memory) == min_memory > max_shared_memory

\* round(n / d) as Python rounds: to the nearest, ties to the even
RoundHalfEven(n, d) ==
    IF 2 * (n % d) < d THEN n \div d
    ELSE IF 2 * (n % d) > d THEN (n \div d) + 1
    ELSE IF (n \div d) % 2 = 0 THEN n \div d
    ELSE (n \div d) + 1

\* suggested_mib: the two quotients are exact, their sum is min_memory / MiB
suggested_mib(min_memory) == RoundHalfEven(min_memory, MiB) + 32

-----------------------------------------------------------------------------
(* DLManager.run_analysis *)

\* the planner's locals before its loops
PlanStart(conf, mc) ==
    [references |-> [g \in AllGuids(conf.manifest) |-> 0],
     unchanged |-> Cardinality(mc.unchanged),
     current_tmp_size |-> 0, disk_space_delta |-> 0, reuse_size |-> 0,
     re_usable |-> <<>>, reusable_written |-> <<>>,
     cur_written_cps |-> [g \in AllGuids(conf.manifest) |-> <<>>],
     cached |-> {}, chunks_in_dl_list |-> {}, dl_cache_guids |-> {},
     chunks_to_dl |-> <<>>, current_cache_size |-> 0, last_cache_size |-> 0,
     tasks |-> <<>>, chunk_tasks |-> <<>>, reused |-> 0]

biggest_chunk(manifest) ==
    MaxSeq([i \in 1..Len(manifest.chunk_data_list.elements) |->
               manifest.chunk_data_list.elements[i].window_size])

\* the chunks of the manifest that are downloaded
DlChunks(manifest, chunks_in_dl_list) ==
    SelectSeq(manifest.chunk_data_list.elements,
              LAMBDA c : GuidNumOf(c.guid) \in chunks_in_dl_list)

\* what run_analysis holds when it leaves: raised tells whether it leaves by
\* MemoryError; analysis is the AnalysisResult it would return
Outcome(conf, mc, st) ==
    [raised |-> GuardFails(MinMemory(st.last_cache_size), conf.max_shared_memory),
     last_cache_size |-> st.last_cache_size,
     suggested_mib |-> suggested_mib(MinMemory(st.last_cache_size)),
     tasks |-> st.tasks,
     chunks_to_dl |-> st.chunks_to_dl,
     removed |-> mc.removed,
     additional_deletion_tasks |-> additional_deletion_tasks(conf),
     analysis |->
        [install_size |-> install_size(conf, mc),
         biggest_chunk |-> biggest_chunk(conf.manifest),
         biggest_file_size |-> MaxSeq(FileSizes(conf.manifest.file_manifest_list.elements)),
         manifest_comparison |-> mc,
         removed |-> Cardinality(mc.removed),
         added |-> Cardinality(mc.added),
         changed |-> Cardinality(mc.changed),
         unchanged |-> st.unchanged,
         disk_space_delta |-> st.disk_space_delta,
         reuse_size |-> st.reuse_size,
         min_memory |-> MinMemory(st.last_cache_size),
         dl_size |-> SumSeq([i \in 1..Len(DlChunks(conf.manifest, st.chunks_in_dl_list)) |->
                        DlChunks(conf.manifest, st.chunks_in_dl_list)[i].file_size]),
         uncompressed_dl_size |->
             SumSeq([i \in 1..Len(DlChunks(conf.manifest, st.chunks_in_dl_list)) |->
                        DlChunks(conf.manifest, st.chunks_in_dl_list)[i].window_size]),
         num_chunks_cache |-> Cardinality(st.dl_cache_guids)]]

\* the loops of run_analysis over the processing order fmlist
Planned(conf, mc, fmlist) ==
    Outcome(conf, mc,
        EmitFiles(Written(conf, fmlist,
                      Reused(conf, mc,
                          CountRefs(SortedByName(conf.manifest.file_manifest_list.elements),
                                    mc, conf.old_manifest, PlanStart(conf, mc)))),
                  fmlist, mc, biggest_chunk(conf.manifest)))

Ordered(conf, mc) == Planned(conf, mc, ProcessingOrder(conf, mc))

run_analysis(conf) ==
    Ordered(conf, Filtered(conf, Resumed(conf,
                 ManifestComparison_create(conf.manifest, conf.old_manifest))))

-----------------------------------------------------------------------------
(* Manifests, disks and settings the installer is run on *)

\* the guid whose number is g
Guid(g) == <<0, 0, 0, g>>

\* the bytes [offset, offset + size) of the chunk g: every byte of every chunk
\* has a value of its own
ChunkBytes(g, offset, size) == [i \in 1..size |-> g * 16 + offset + i - 1]

\* the chunk parts <<g, offset, size>> of a file as ChunkPart objects
ChunkParts(parts) ==
    [i \in 1..Len(parts) |->
        [guid |-> Guid(parts[i][1]), offset |-> parts[i][2], size |-> parts[i][3],
         file_offset |-> SumSeq([j \in 1..(i - 1) |-> parts[j][3]])]]

\* the content a file manifest describes
Content(cps) ==
    Concat([i \in 1..Len(cps) |->
               ChunkBytes(GuidNumOf(cps[i].guid), cps[i].offset, cps[i].size)])

\* the SHA-1 of a content: twenty bytes in the code, here the content behind
\* a marker, so that different contents have different hashes
ContentHash(content) == <<20>> \o content

\* a FileManifest as FML.read builds it
NewFile(name, parts, tags, flags) ==
    [filename |-> name, symlink_target |-> <<>>,
     hash |-> ContentHash(Content(ChunkParts(parts))), flags |-> flags,
     install_tags |-> tags, chunk_parts |-> ChunkParts(parts),
     file_size |-> SumSeq([j \in 1..Len(parts) |-> parts[j][3]]),
     hash_md5 |-> <<>>, mime_type |-> <<>>, hash_sha256 |-> <<>>]

\* the guid numbers of a list of files, ascending
RECURSIVE Ascending(_)
Ascending(S) ==
    IF S = {} THEN <<>>
    ELSE <<CHOOSE m \in S : \A x \in S : m <= x>>
         \o Ascending(S \ {CHOOSE m \in S : \A x \in S : m <= x})

\* a manifest of the given files whose chunks all have the given window size
NewManifest(files, window) ==
    [EmptyManifest EXCEPT
        !.chunk_data_list =
            [version |-> 0, size |-> 0, manifest_version |-> 18,
             count |-> Cardinality(UNION {Range(PartGuids(f)) : f \in Range(files)}),
             elements |->
                [i \in 1..Cardinality(UNION {Range(PartGuids(f)) : f \in Range(files)}) |->
                    NewChunkInfo(
                        Guid(Ascending(UNION {Range(PartGuids(f)) : f \in Range(files)})[i]),
                        5, [k \in 1..20 |-> 0], 0, window, window \div 2)]],
        !.file_manifest_list =
            [version |-> 0, size |-> 0, count |-> Len(files), elements |-> files]]

\* the install directory an installation of the manifest left behind
DiskOf(old_manifest) ==
    IF old_manifest = <<>> THEN <<>>
    ELSE [n \in FileNames(old_manifest[1]) |->
            Content(get_file_by_path(old_manifest[1].file_manifest_list.elements,
                                     n).chunk_parts)]

\* the arguments of DLManager(...) and of run_analysis(...) at their defaults,
\* on the disk the old manifest describes; put_faults and dl_faults tell
\* whether queue puts and downloads can fail during the run
Settings(manifest, old_manifest) ==
    [manifest |-> manifest, old_manifest |-> old_manifest,
     disk |-> DiskOf(old_manifest),
     patch |-> TRUE, resume |-> TRUE, resume_file |-> "unset", resume_lines |-> <<>>,
     file_prefix_filter |-> <<>>, file_exclude_filter |-> <<>>,
     file_exclude_configured |-> <<>>, file_install_tag |-> <<>>,
     read_files |-> FALSE, processing_optimization |-> FALSE,
     max_shared_memory |-> 1024 * MiB, max_workers |-> 1,
     put_faults |-> FALSE, dl_faults |-> FALSE]

-----------------------------------------------------------------------------
(* DLManager as a state machine: construction, run_analysis, run *)

\* an empty dict
EmptyDict == [x \in {} |-> 0]

NoCounts ==
    [num_tasks_processed |-> 0, num_processed |-> 0, bytes_downloaded |-> 0,
     bytes_decompressed |-> 0, bytes_written |-> 0, bytes_read |-> 0]

\* a thread that has not been started
NotStarted == [pc |-> "idle"]

NoHistory ==
    [written |-> <<>>, popped |-> EmptyDict, released |-> EmptyDict, handled |-> 0,
     failed_puts |-> 0, failed_downloads |-> 0, failed_writes |-> 0,
     sentinels |-> [workers |-> 0, writer |-> 0],
     submitted |-> EmptyDict, dl_failed |-> EmptyDict, dispatched |-> 0]

\* no DLManager exists
DmIdle ==
    /\ cfg = <<>>
    /\ pc = "idle"
    /\ plan = <<>>
    /\ tasks = <<>>
    /\ chunks_to_dl = <<>>
    /\ analysis = <<>>
    /\ hash_map = EmptyDict
    /\ running = FALSE
    /\ active_tasks = 0
    /\ sms = <<>>
    /\ dl_worker_queue = <<>>
    /\ dl_result_q = <<>>
    /\ writer_queue = <<>>
    /\ writer_result_q = <<>>
    /\ since_last = NoCounts
    /\ djm = NotStarted
    /\ drh = NotStarted
    /\ frh = NotStarted
    /\ main = NotStarted
    /\ children = [workers |-> 0, writer |-> "none", current_file |-> <<>>]
    /\ disk = EmptyDict
    /\ journal = [exists |-> FALSE, lines |-> <<>>]
    /\ shm = <<>>
    /\ hist = NoHistory

\* DLManager.__init__ with the settings c, in the install directory c.disk
DLManager_init(c) ==
    /\ cfg = <<c>>
    /\ pc = "new"
    /\ plan = <<>>
    /\ tasks = <<>>
    /\ chunks_to_dl = <<>>
    /\ analysis = <<>>
    /\ hash_map = EmptyDict
    /\ running = TRUE
    /\ active_tasks = 0
    /\ sms = <<>>
    /\ dl_worker_queue = <<>>
    /\ dl_result_q = <<>>
    /\ writer_queue = <<>>
    /\ writer_result_q = <<>>
    /\ since_last = NoCounts
    /\ djm = NotStarted
    /\ drh = NotStarted
    /\ frh = NotStarted
    /\ main = NotStarted
    /\ children = [workers |-> 0, writer |-> "none", current_file |-> <<>>]
    /\ disk = c.disk
    /\ journal = [exists |-> c.resume_file \in {"present", "unreadable"},
                  lines |-> c.resume_lines]
    /\ shm = <<>>
    /\ hist = NoHistory

\* every enumeration of the set S: the orders a loop over a set can take
Orderings(S) ==
    {s \in [1..Cardinality(S) -> S] : \A i, j \in 1..Cardinality(S) : s[i] = s[j] => i = j}

\* the tasks with their position in the task stream; the position is the
\* model's bookkeeping and no field of a task
Numbered(ts) == [i \in 1..Len(ts) |-> [pos |-> i] @@ ts[i]]

\* the end of run_analysis with the outcome p: by MemoryError, which leaves
\* self.analysis unset, or by return after the deletion tasks were added
Analysed(p) ==
    /\ plan' = <<[raised |-> p.raised, last_cache_size |-> p.last_cache_size,
                 min_memory |-> p.analysis.min_memory,
                 suggested_mib |-> p.suggested_mib]>>
    /\ hash_map' = HashMap(cfg[1].manifest)
    /\ chunks_to_dl' = p.chunks_to_dl
    /\ IF p.raised
       THEN /\ tasks' = Numbered(p.tasks)
            /\ analysis' = <<>>
            /\ pc' = "failed"
       ELSE /\ \E order \in Orderings(p.removed) :
                  tasks' = Numbered(p.tasks
                             \o [i \in 1..Len(order) |->
                                    FileTask(order[i], {"DELETE_FILE"}, <<>>)]
                             \o p.additional_deletion_tasks)
            /\ analysis' = <<p.analysis>>
            /\ pc' = "analysed"

\* DLManager.run_analysis(manifest, old_manifest, ...)
RunAnalysis ==
    /\ pc = "new"
    /\ Analysed(run_analysis(cfg[1]))
    /\ UNCHANGED <<cfg, running, active_tasks, sms, dl_worker_queue, dl_result_q,
                   writer_queue, writer_result_q, since_last, djm, drh, frh, main,
                   children, disk, journal, shm, hist, fsVars, mfVars, puVars>>

\* the number of slots the arena is cut into
NumSlots == cfg[1].max_shared_memory \div analysis[1].biggest_chunk

\* DLManager.run and run_real up to the start of the three threads; without
\* an analysis run raises ValueError and nothing is started
Run ==
    /\ pc \in {"analysed", "failed"}
    /\ IF analysis = <<>>
       THEN /\ pc' = "refused"
            /\ UNCHANGED <<sms, children, main, djm, drh, frh, shm, hist, active_tasks>>
       ELSE /\ pc' = "running"
            /\ sms' = [i \in 1..NumSlots |-> i]
            /\ shm' = [i \in 1..NumSlots |-> 0]
            /\ children' = [workers |-> cfg[1].max_workers, writer |-> "alive",
                            current_file |-> <<>>]
            /\ main' = [pc |-> "loop", num_tasks |-> Len(tasks),
                        processed_chunks |-> 0, processed_tasks |-> 0,
                        total_dl |-> 0, total_write |-> 0,
                        shared_memory |-> "created"]
            /\ active_tasks' = 0
            /\ djm' = [pc |-> "loop", sms |-> 0, c_guid |-> 0, active_tasks |-> 0]
            /\ drh' = [pc |-> "start", task |-> <<>>, current_file |-> <<>>,
                       in_buffer |-> EmptyDict, res |-> <<>>, active_tasks |-> 0,
                       before |-> 0]
            /\ frh' = [pc |-> "loop"]
            /\ hist' = [hist EXCEPT !.popped = [i \in 1..NumSlots |-> 0],
                                    !.released = [i \in 1..NumSlots |-> 0],
                                    !.submitted = [g \in Range(chunks_to_dl) |-> 0],
                                    !.dl_failed = [g \in Range(chunks_to_dl) |-> 0]]
    /\ UNCHANGED <<cfg, plan, tasks, chunks_to_dl, analysis, hash_map, running,
                   dl_worker_queue, dl_result_q, writer_queue, writer_result_q,
                   since_last, disk, journal, fsVars, mfVars, puVars>>

-----------------------------------------------------------------------------
(* The string codec as a state machine: strings are written one after the  *)
(* other into one buffer and then read back from its start.                *)

\* 'A', e-acute, the byte order mark U+FEFF, and U+1F600 (two code units)
CodePoints == {65, 233, 65279, 128512}

MaxStrLen == 2

NumStrings == 2

FsStrings == SeqsUpTo(CodePoints, MaxStrLen)

FsIdle ==
    /\ fs_strs = <<>>
    /\ fs_bio = <<>>
    /\ fs_pos = 0
    /\ fs_nw = 0
    /\ fs_out = <<>>
    /\ fs_ends = <<>>

PuIdle ==
    /\ pu_in = <<>>
    /\ pu_out = <<>>

MfIdle ==
    /\ mf_obj = <<>>
    /\ mf_src = <<>>
    /\ mf_wire = <<>>
    /\ mf_padded = FALSE
    /\ mf_back = <<>>
    /\ mf_pc = "idle"
    /\ mf_gen = 0
    /\ mf_from45 = FALSE

FsInit ==
    /\ MfIdle
    /\ DmIdle
    /\ PuIdle
    /\ fs_strs \in [1..NumStrings -> FsStrings]
    /\ fs_bio = <<>>
    /\ fs_pos = 0
    /\ fs_nw = 0
    /\ fs_out = <<>>
    /\ fs_ends = <<>>

FsWrite ==
    /\ fs_nw < Len(fs_strs)
    /\ fs_bio' = fs_bio \o write_fstring(fs_strs[fs_nw + 1])
    /\ fs_nw' = fs_nw + 1
    /\ fs_ends' = Append(fs_ends, Len(fs_bio'))
    /\ UNCHANGED <<fs_strs, fs_pos, fs_out, mfVars, dmVars, puVars>>

FsRead ==
    /\ fs_nw = Len(fs_strs)
    /\ Len(fs_out) < Len(fs_strs)
    /\ \A i \in 1..Len(fs_out) : fs_out[i].ok
    /\ LET r == read_fstring(fs_bio, fs_pos)
       IN  /\ fs_out' = Append(fs_out, [ok |-> r.ok, s |-> r.s])
           /\ fs_pos' = r.pos
    /\ UNCHANGED <<fs_strs, fs_bio, fs_nw, fs_ends, mfVars, dmVars, puVars>>

FsNext == FsWrite \/ FsRead

SpecFstr == FsInit /\ [][FsNext]_vars

-----------------------------------------------------------------------------
(* C10: every string read back by read_fstring is the string that was      *)
(* written, and the reader stops exactly where the writer of that string   *)
(* stopped.                                                                *)
C10_FstringRoundTrip ==
    \A i \in 1..Len(fs_out) :
        /\ fs_out[i].ok
        /\ fs_out[i].s = fs_strs[i]
        /\ (i = Len(fs_out) => fs_pos = fs_ends[i])

-----------------------------------------------------------------------------
(* The manifest codec as a state machine: a manifest object is written,    *)
(* the bytes are read back, and the object read may be used (its chunk     *)
(* index built) and written again.  A file from another producer may carry *)
(* a longer header.                                                        *)

MaxReads == 2

\* file and application names: "A", "e-acute", U+1F600
CodecNames == {<<65>>, <<233>>, <<128512>>}

Bytes20 == [i \in 1..20 |-> i]

Bytes16 == [i \in 1..16 |-> 100 + i]

Bytes32 == [i \in 1..32 |-> 200 + (i % 50)]

TheGuid == <<0, 0, 0, 4>>

\* a manifest as a caller builds it: the optional fields are set exactly when
\* the version that stores them is selected
CodecManifest(dv, fv, fl, name, group) ==
    [EmptyManifest EXCEPT
        !.version = fl,
        !.meta = [meta_size |-> 0, data_version |-> dv, feature_level |-> fl,
                  is_file_data |-> FALSE, app_id |-> 0, app_name |-> name,
                  build_version |-> <<49>>, launch_exe |-> <<>>,
                  launch_command |-> <<>>, prereq_ids |-> <<<<80>>>>,
                  prereq_name |-> <<>>, prereq_path |-> <<>>,
                  prereq_args |-> <<>>,
                  uninstall_action_path |-> IF dv >= 2 THEN <<85>> ELSE <<>>,
                  uninstall_action_args |-> <<>>,
                  build_id_cache |-> <<>>],
        !.chunk_data_list =
                 [version |-> 0, size |-> 0, count |-> 1, manifest_version |-> fl,
                  elements |-> <<NewChunkInfo(TheGuid, 5, Bytes20, group, 2, 1)>>],
        !.file_manifest_list =
                 [version |-> fv, size |-> 0, count |-> 1,
                  elements |-> <<[filename |-> name, symlink_target |-> <<>>,
                                  hash |-> Bytes20, flags |-> 4,
                                  install_tags |-> <<<<116>>>>,
                                  chunk_parts |-> <<[guid |-> TheGuid, offset |-> 0,
                                                     size |-> 2, file_offset |-> 0]>>,
                                  file_size |-> 2,
                                  hash_md5 |-> IF fv >= 1 THEN Bytes16 ELSE <<>>,
                                  mime_type |-> IF fv >= 1 THEN <<109>> ELSE <<>>,
                                  hash_sha256 |-> IF fv >= 2 THEN Bytes32 ELSE <<>>]>>],
        !.custom_fields = [version |-> 0, size |-> 0, count |-> 1,
                           dict |-> <<<<<<107>>, <<118>>>>>>]]

CodecInit ==
    /\ FsIdle
    /\ DmIdle
    /\ PuIdle
    /\ \E dv \in 0..2, fv \in 0..2, fl \in {12, 18, 22}, name \in CodecNames,
          group \in {Crc32Mod100(TheGuid), 7} :
          mf_obj = CodecManifest(dv, fv, fl, name, group)
    /\ mf_src = <<>>
    /\ mf_wire = <<>>
    /\ mf_padded = FALSE
    /\ mf_back = <<>>
    /\ mf_pc = "obj"
    /\ mf_gen = 0
    /\ mf_from45 = FALSE

\* Manifest.write(compress=...)
CodecWrite ==
    /\ mf_pc = "obj"
    /\ \E compress \in BOOLEAN :
          LET w == Manifest_write(mf_obj, compress)
          IN  /\ w.ok
              /\ mf_obj' = w.m
              /\ mf_src' = w.m
              /\ mf_wire' = w.out
    /\ mf_padded' = FALSE
    /\ mf_pc' = "wire"
    /\ UNCHANGED <<mf_back, mf_gen, mf_from45, fsVars, dmVars, puVars>>

\* Another producer's file: the same manifest behind a 45-byte header, its
\* header_size field 45 and four zero bytes after the 41 known header bytes
CodecPadHeader ==
    /\ mf_pc = "wire"
    /\ ~mf_padded
    /\ mf_src.header_size = 41
    /\ mf_wire' = SubSeq(mf_wire, 1, 4) \o Pack32(45) \o SubSeq(mf_wire, 9, 41)
                  \o <<0, 0, 0, 0>> \o Drop(mf_wire, 41)
    /\ mf_padded' = TRUE
    /\ UNCHANGED <<mf_obj, mf_src, mf_back, mf_pc, mf_gen, mf_from45, fsVars, dmVars, puVars>>

\* Manifest.read_all(data)
CodecReadAll ==
    /\ mf_pc = "wire"
    /\ mf_gen < MaxReads
    /\ LET r == Manifest_read_all(mf_wire)
       IN  /\ mf_back' = <<r>>
           /\ mf_obj' = IF r.ok THEN r.m ELSE mf_obj
           /\ mf_pc' = IF r.ok THEN "obj" ELSE "failed"
    /\ mf_gen' = mf_gen + 1
    /\ mf_from45' = mf_padded
    /\ UNCHANGED <<mf_src, mf_wire, mf_padded, fsVars, dmVars, puVars>>

\* a lookup by guid (CDL.get_chunk_by_guid_num), as the planner makes
CodecLookup ==
    /\ mf_pc = "obj"
    /\ mf_obj' = [mf_obj EXCEPT !.chunk_data_list = CDL_touch_guid_nums(@)]
    /\ mf_obj'.chunk_data_list # mf_obj.chunk_data_list
    /\ UNCHANGED <<mf_src, mf_wire, mf_padded, mf_back, mf_pc, mf_gen, mf_from45,
                   fsVars, dmVars, puVars>>

CodecNext == CodecWrite \/ CodecPadHeader \/ CodecReadAll \/ CodecLookup

SpecCodec == CodecInit /\ [][CodecNext]_vars

\* what a caller can observe of a chunk
ChunkObs(c) ==
    [guid |-> c.guid, hash |-> c.hash, sha_hash |-> c.sha_hash,
     group_num |-> ChunkInfo_group_num(c).v, window_size |-> c.window_size,
     file_size |-> c.file_size]

\* what a caller can observe of a manifest, the header version, the section
\* sizes and the raw body aside
ManifestObs(m) ==
    [header_size |-> m.header_size, size_compressed |-> m.size_compressed,
     size_uncompressed |-> m.size_uncompressed, sha_hash |-> m.sha_hash,
     stored_as |-> m.stored_as,
     meta |-> [m.meta EXCEPT !.meta_size = 0,
                             !.build_id_cache = ManifestMeta_build_id(m.meta)],
     cdl_version |-> m.chunk_data_list.version,
     chunks |-> [i \in 1..Len(m.chunk_data_list.elements) |->
                    ChunkObs(m.chunk_data_list.elements[i])],
     fml_version |-> m.file_manifest_list.version,
     files |-> m.file_manifest_list.elements,
     custom_version |-> m.custom_fields.version,
     custom |-> m.custom_fields.dict]

-----------------------------------------------------------------------------
(* C8: whenever the bytes Manifest.write returned have been read back,     *)
(* Manifest.read_all succeeded and the manifest read equals the manifest   *)
(* written on every observable field; only the header version may differ.  *)
C8_ManifestRoundTrip ==
    (mf_back # <<>> /\ mf_pc # "wire" /\ ~mf_padded) =>
        /\ mf_back[1].ok
        /\ ManifestObs(mf_back[1].m) = ManifestObs(mf_src)
        /\ mf_back[1].m.version = mf_src.meta.feature_level

\* the file of CodecPadHeader with its four extra bytes removed and
\* header_size 41
Unpad45(w) == SubSeq(w, 1, 4) \o Pack32(41) \o SubSeq(w, 9, 41) \o Drop(w, 45)

(* C9: a manifest with header_size 45 and four extra bytes is parsed as    *)
(* the same manifest with a 41-byte header is, header_size aside; and the  *)
(* bytes Manifest.write returns for a manifest parsed from such a file     *)
(* carry header_size 41 and are read back by Manifest.read_all.            *)
C9_HeaderSizeRestored ==
    /\ (mf_back # <<>> /\ mf_pc # "wire" /\ mf_padded) =>
          /\ mf_back[1].ok = Manifest_read_all(Unpad45(mf_wire)).ok
          /\ mf_back[1].ok =>
                mf_back[1].m
                  = [Manifest_read_all(Unpad45(mf_wire)).m EXCEPT !.header_size = 45]
    /\ (mf_pc = "wire" /\ ~mf_padded /\ mf_from45) =>
          /\ RdU32(mf_wire, 4).v = 41
          /\ Manifest_read_all(mf_wire).ok

-----------------------------------------------------------------------------
(* The planner on a family of manifest pairs and settings *)

MaxParts == 2

\* chunk parts <<guid, offset, size>> of two chunks; the first two overlap
PlanParts == {<<1, 0, 2>>, <<1, 1, 1>>, <<2, 0, 1>>}

PartLists == SeqsUpTo(PlanParts, MaxParts)

\* the file names 'a', 'b', 'c', 'd' and 'B'
NameA == <<97>>

NameB == <<98>>

NameC == <<99>>

NameD == <<100>>

UpperB == <<66>>

\* two files 'a' and 'b' of at most MaxParts chunk parts over chunks of 1 MiB
PairManifests ==
    {NewManifest(<<NewFile(NameA, pa, <<>>, 0), NewFile(NameB, pb, <<>>, 0)>>, MiB) :
        pa \in PartLists \ {<<>>}, pb \in PartLists}

\* no old manifest, or one whose only file 'b' has one chunk part
OldManifests ==
    {<<>>} \cup {<<NewManifest(<<NewFile(NameB, <<p>>, <<>>, 0)>>, MiB)>> : p \in PlanParts}

\* every pair with and without patch and read_files, in an arena that holds
\* the padding exactly or one chunk more
PairSettings ==
    {[Settings(m, o) EXCEPT !.patch = p, !.read_files = r, !.max_shared_memory = s] :
        m \in PairManifests, o \in OldManifests, p \in BOOLEAN, r \in BOOLEAN,
        s \in {32 * MiB, 33 * MiB}}

\* the parts <<g, 0, 1>> for g = lo..hi
Whole(lo, hi) == [i \in 1..(hi - lo + 1) |-> <<lo + i - 1, 0, 1>>]

\* two files that name the same eight chunks of 1 MiB
EightShared ==
    NewManifest(<<NewFile(NameA, Whole(1, 8), <<>>, 0),
                  NewFile(NameB, Whole(1, 8), <<>>, 0)>>, MiB)

\* three files of six chunk parts each, the first and the last sharing five
Overlapping ==
    NewManifest(<<NewFile(NameA, Whole(1, 6), <<>>, 0),
                  NewFile(NameB, Whole(7, 12), <<>>, 0),
                  NewFile(NameC, Whole(2, 7), <<>>, 0)>>, MiB)

\* four files: 'c' and 'd' both share the five chunks of 'a', 'b' none
Tied ==
    NewManifest(<<NewFile(NameA, Whole(1, 5), <<>>, 0),
                  NewFile(NameB, Whole(6, 6), <<>>, 0),
                  NewFile(NameC, Whole(1, 5), <<>>, 0),
                  NewFile(NameD, Whole(1, 5), <<>>, 0)>>, MiB)

\* three files: 'c' has five chunks and shares four of them with 'a'
NearMiss ==
    NewManifest(<<NewFile(NameA, Whole(1, 5), <<>>, 0),
                  NewFile(NameB, Whole(6, 6), <<>>, 0),
                  NewFile(NameC, Whole(2, 6), <<>>, 0)>>, MiB)

\* three files: 'c' shares the five chunks of 'a', 'b' takes another part of
\* the first of them
SplitUse ==
    NewManifest(<<NewFile(NameA, Whole(1, 5), <<>>, 0),
                  NewFile(NameB, <<<<1, 1, 1>>>>, <<>>, 0),
                  NewFile(NameC, Whole(1, 5), <<>>, 0)>>, MiB)

\* an executable, a tagged file, an empty file and a file in upper case
Mixed ==
    NewManifest(<<NewFile(NameA, <<<<1, 0, 2>>>>, <<>>, 4),
                  NewFile(UpperB, <<<<1, 0, 2>>, <<2, 0, 1>>>>, <<<<116>>>>, 0),
                  NewFile(NameC, <<>>, <<>>, 0),
                  NewFile(NameD \o <<47>> \o NameA, <<<<2, 0, 1>>>>, <<>>, 0)>>, MiB)

\* the version before Mixed: 'a' as it is, 'B' shorter, 'b' and 'c' removed
BeforeMixed ==
    <<NewManifest(<<NewFile(NameA, <<<<1, 0, 2>>>>, <<>>, 4),
                    NewFile(UpperB, <<<<1, 0, 2>>>>, <<<<116>>>>, 0),
                    NewFile(NameB, <<<<2, 0, 1>>>>, <<>>, 0),
                    NewFile(NameC \o NameC, <<<<2, 0, 1>>>>, <<>>, 0)>>, MiB)>>

\* an executable that grows by one chunk part, and an empty file
Patched ==
    NewManifest(<<NewFile(NameA, <<<<1, 0, 2>>, <<2, 0, 1>>>>, <<>>, 4),
                  NewFile(NameC, <<>>, <<>>, 0)>>, MiB)

BeforePatched == <<NewManifest(<<NewFile(NameA, <<<<1, 0, 2>>>>, <<>>, 4)>>, MiB)>>

\* one line of the resume journal
JournalLine(file_hash, filename) == Hex(file_hash) \o <<58>> \o filename \o <<10>>

PlanScenarios ==
    {[Settings(EightShared, <<>>) EXCEPT !.max_shared_memory = 4 * MiB],
     [Settings(EightShared, <<>>) EXCEPT !.max_shared_memory = 40 * MiB],
     [Settings(Overlapping, <<>>) EXCEPT !.processing_optimization = TRUE],
     [Settings(Overlapping, <<>>) EXCEPT !.max_shared_memory = 36 * MiB],
     Settings(Mixed, BeforeMixed),
     [Settings(Mixed, BeforeMixed) EXCEPT !.resume = FALSE, !.disk = EmptyDict],
     [Settings(Mixed, BeforeMixed) EXCEPT !.disk = EmptyDict],
     [Settings(Mixed, BeforeMixed) EXCEPT !.file_install_tag = <<<<<<116>>>>>>],
     [Settings(Mixed, BeforeMixed) EXCEPT !.file_install_tag = <<<<<<>>>>>>,
                                          !.read_files = TRUE],
     [Settings(Mixed, BeforeMixed) EXCEPT !.file_exclude_filter = <<UpperB>>,
                                          !.read_files = TRUE],
     [Settings(Mixed, BeforeMixed) EXCEPT !.file_prefix_filter = <<NameB, NameD>>],
     [Settings(Mixed, BeforeMixed) EXCEPT
         !.file_exclude_configured = <<NameD \o <<47, 42>>, <<63>>>>],
     [Settings(Mixed, <<>>) EXCEPT
         !.resume_file = "present",
         !.disk = (NameA :> <<16, 17>>) @@ (NameC :> <<>>),
         !.resume_lines =
             <<JournalLine(ContentHash(<<16, 17>>), NameA),
               JournalLine(ContentHash(<<1>>), NameC),
               JournalLine(ContentHash(<<16, 17, 32>>), UpperB)>>],
     [Settings(Mixed, <<>>) EXCEPT
         !.resume_file = "present",
         !.disk = (NameA :> <<16, 17>>) @@ (NameB :> <<32>>),
         !.resume_lines =
             <<JournalLine(ContentHash(<<16, 17>>), NameA),
               JournalLine(ContentHash(<<32>>), NameB)>>],
     [Settings(Mixed, <<>>) EXCEPT
         !.resume_file = "present",
         !.disk = (NameB :> <<>>),
         !.resume_lines = <<JournalLine(ContentHash(<<>>), NameB)>>],
     [Settings(Mixed, <<>>) EXCEPT !.resume_file = "unreadable"],
     [Settings(Mixed, BeforeMixed) EXCEPT
         !.resume_file = "unreadable",
         !.disk = (UpperB :> <<16, 17>>)],
     [Settings(Mixed, BeforeMixed) EXCEPT
         !.resume_file = "present",
         !.disk = (UpperB :> <<16, 17>>) @@ (NameB :> <<32>>),
         !.resume_lines = <<JournalLine(ContentHash(<<32>>), NameB)>>],
     [Settings(Mixed, BeforeMixed) EXCEPT
         !.disk = (UpperB :> <<16, 17>>),
         !.file_prefix_filter = <<NameB, NameD>>],
     [Settings(Tied, <<>>) EXCEPT !.processing_optimization = TRUE],
     [Settings(NearMiss, <<>>) EXCEPT !.processing_optimization = TRUE],
     [Settings(SplitUse, <<>>) EXCEPT !.processing_optimization = TRUE],
     Settings(Patched, BeforePatched)}

PlanInit ==
    /\ FsIdle
    /\ MfIdle
    /\ PuIdle
    /\ \E c \in PairSettings \cup PlanScenarios : DLManager_init(c)

PlanNext == RunAnalysis \/ Run

SpecPlan == PlanInit /\ [][PlanNext]_vars

-----------------------------------------------------------------------------
\* the positions in self.tasks of the ChunkTasks that take g from the download
FromDownload(g) ==
    {i \in 1..Len(tasks) :
        tasks[i].kind = "chunk" /\ tasks[i].chunk_guid = g /\ tasks[i].chunk_file = <<>>}

(* C1: after run_analysis has returned, for every guid in the download     *)
(* queue exactly one of the ChunkTasks that take it from the download has  *)
(* cleanup set, and that task is the last of them in the task stream.      *)
C1_OneCleanupLast ==
    pc = "analysed" =>
        \A g \in Range(chunks_to_dl) :
            /\ Cardinality({i \in FromDownload(g) : tasks[i].cleanup}) = 1
            /\ \A i, j \in FromDownload(g) : tasks[i].cleanup => j <= i

(* C6: min_memory is last_cache_size + 32 MiB; run_analysis leaves by       *)
(* MemoryError exactly when min_memory exceeds max_shared_memory, no        *)
(* worker and no thread exists then or later, and the suggested size is at  *)
(* least min_memory (at least 40 MiB for chunks of 1 MiB, an arena of 4 MiB *)
(* and a last_cache_size of 8 MiB); otherwise it returns its result.        *)
C6_MemoryGuard ==
    plan # <<>> =>
        /\ plan[1].min_memory = plan[1].last_cache_size + 32 * MiB
        /\ plan[1].raised <=> plan[1].min_memory > cfg[1].max_shared_memory
        /\ plan[1].raised =>
              /\ analysis = <<>>
              /\ pc \in {"failed", "refused"}
              /\ children.workers = 0 /\ children.writer = "none"
              /\ djm.pc = "idle" /\ drh.pc = "idle" /\ frh.pc = "idle"
              /\ main.pc = "idle"
              /\ plan[1].suggested_mib * MiB >= plan[1].min_memory
              /\ (/\ biggest_chunk(cfg[1].manifest) = MiB
                  /\ cfg[1].max_shared_memory = 4 * MiB
                  /\ plan[1].last_cache_size = 8 * MiB) => plan[1].suggested_mib >= 40
        /\ ~plan[1].raised =>
              /\ analysis # <<>>
              /\ analysis[1].min_memory = plan[1].min_memory
              /\ pc \in {"analysed", "running", "exited"}

\* planning has failed in the arena of 4 MiB with a cache need of 8 MiB, and
\* run has been called
C6_Witness ==
    /\ pc = "refused"
    /\ plan # <<>>
    /\ plan[1].raised
    /\ cfg[1].max_shared_memory = 4 * MiB
    /\ plan[1].last_cache_size = 8 * MiB
    /\ biggest_chunk(cfg[1].manifest) = MiB

-----------------------------------------------------------------------------
(* The coordinator: download_job_manager *)

MaxPutFailures == 1

MaxDlFailures == 1

\* the outcomes of a queue put: it can fail while failures are left
PutOutcomes ==
    IF cfg[1].put_faults /\ hist.failed_puts < MaxPutFailures THEN BOOLEAN ELSE {TRUE}

\* the outcomes of a download
DlOutcomes ==
    IF cfg[1].dl_faults /\ hist.failed_downloads < MaxDlFailures THEN BOOLEAN ELSE {TRUE}

\* DownloaderTask(url, chunk_guid, shm); as a result it carries success and
\* the two sizes
DownloaderTask(c_guid, slot) ==
    [kind |-> "task", chunk_guid |-> c_guid, shm |-> slot, success |-> FALSE,
     size_downloaded |-> 0, size_decompressed |-> 0]

TerminateWorkerTask == [kind |-> "terminate"]

\* d with the key k removed
Removed(d, k) == [x \in DOMAIN d \ {k} |-> d[x]]

\* d with d[k] = v
Stored(d, k, v) == [x \in DOMAIN d \cup {k} |-> IF x = k THEN v ELSE d[x]]

\* the variables run_analysis settles
planned == <<cfg, plan, analysis, hash_map>>

\* what the workers act on
ground == <<children, disk, journal, shm>>

\* download_job_manager as it would be without the read of self.running
DjmPopUnaware ==
    /\ pc = "running"
    /\ djm.pc \in {"loop", "inner"}
    /\ IF chunks_to_dl = <<>>
       THEN /\ djm' = [djm EXCEPT !.pc = "done"]
            /\ UNCHANGED <<sms, chunks_to_dl, hist>>
       ELSE /\ active_tasks < cfg[1].max_workers * 2
            /\ sms # <<>>
            /\ djm' = [djm EXCEPT !.pc = "put", !.sms = Head(sms),
                                  !.c_guid = Head(chunks_to_dl)]
            /\ sms' = Tail(sms)
            /\ chunks_to_dl' = Tail(chunks_to_dl)
            /\ hist' = [hist EXCEPT !.popped[Head(sms)] = @ + 1]
    /\ UNCHANGED <<planned, ground, pc, tasks, running, active_tasks, dl_worker_queue,
                   dl_result_q, writer_queue, writer_result_q, since_last, drh, frh,
                   main, fsVars, mfVars, puVars>>

\* the head of the two loops: leave when the download queue is empty, else
\* take a slot and a guid when fewer than 2 * max_workers tasks are active
\* and a slot is free; wait otherwise. self.running is read at the head of
\* the outer loop ("loop") only, not at the head of the inner one ("inner")
DjmPop ==
    /\ pc = "running"
    /\ djm.pc \in {"loop", "inner"}
    /\ IF chunks_to_dl = <<>> \/ (djm.pc = "loop" /\ ~running)
       THEN /\ djm' = [djm EXCEPT !.pc = "done"]
            /\ UNCHANGED <<sms, chunks_to_dl, hist>>
       ELSE /\ active_tasks < cfg[1].max_workers * 2
            /\ sms # <<>>
            /\ djm' = [djm EXCEPT !.pc = "put", !.sms = Head(sms),
                                  !.c_guid = Head(chunks_to_dl)]
            /\ sms' = Tail(sms)
            /\ chunks_to_dl' = Tail(chunks_to_dl)
            /\ hist' = [hist EXCEPT !.popped[Head(sms)] = @ + 1]
    /\ UNCHANGED <<planned, ground, pc, tasks, running, active_tasks, dl_worker_queue,
                   dl_result_q, writer_queue, writer_result_q, since_last, drh, frh,
                   main, fsVars, mfVars, puVars>>

\* dl_worker_queue.put(DownloaderTask(...)); on success self.active_tasks is
\* read for the increment, on failure the guid goes back to the head of the
\* download queue and the inner loop is left
DjmPut ==
    /\ pc = "running"
    /\ djm.pc = "put"
    /\ \E ok \in PutOutcomes :
          IF ok
          THEN /\ dl_worker_queue' =
                     Append(dl_worker_queue, DownloaderTask(djm.c_guid, djm.sms))
               /\ djm' = [djm EXCEPT !.pc = "store", !.active_tasks = active_tasks]
               /\ hist' = [hist EXCEPT !.submitted[djm.c_guid] = @ + 1]
               /\ UNCHANGED chunks_to_dl
          ELSE /\ chunks_to_dl' = <<djm.c_guid>> \o chunks_to_dl
               /\ djm' = [djm EXCEPT !.pc = "loop"]
               /\ hist' = [hist EXCEPT !.failed_puts = @ + 1]
               /\ UNCHANGED dl_worker_queue
    /\ UNCHANGED <<planned, ground, pc, tasks, running, active_tasks, sms,
                   dl_result_q, writer_queue, writer_result_q, since_last, drh, frh,
                   main, fsVars, mfVars, puVars>>

\* self.active_tasks += 1: the store of the value read plus one
DjmStore ==
    /\ pc = "running"
    /\ djm.pc = "store"
    /\ active_tasks' = djm.active_tasks + 1
    /\ djm' = [djm EXCEPT !.pc = "inner"]
    /\ hist' = [hist EXCEPT !.dispatched = @ + 1]
    /\ UNCHANGED <<planned, ground, pc, tasks, chunks_to_dl, running, sms,
                   dl_worker_queue, dl_result_q, writer_queue, writer_result_q,
                   since_last, drh, frh, main, fsVars, mfVars, puVars>>

-----------------------------------------------------------------------------
(* The coordinator: dl_results_handler *)

\* WriterTask(**task.__dict__) of a FileTask
WriterTask(task) ==
    [kind |-> "task", pos |-> task.pos, filename |-> task.filename,
     flags |-> task.flags, old_file |-> task.old_file, shared_memory |-> 0,
     chunk_offset |-> 0, chunk_size |-> 0, chunk_guid |-> 0]

\* the slot of the writer task of a chunk task: None when it reads a file
res_shm(task, in_buffer) ==
    IF task.chunk_file = <<>> THEN in_buffer[task.chunk_guid].shm ELSE 0

\* the WriterTask of a chunk task, written to current_file
ChunkWrite(task, current_file, in_buffer) ==
    [kind |-> "task", pos |-> task.pos, filename |-> current_file,
     flags |-> IF task.cleanup THEN {"RELEASE_MEMORY"} ELSE {},
     old_file |-> task.chunk_file, shared_memory |-> res_shm(task, in_buffer),
     chunk_offset |-> task.chunk_offset, chunk_size |-> task.chunk_size,
     chunk_guid |-> task.chunk_guid]

\* current_file left as it is by a FileTask
KeptCurrentFile(task, current_file) == current_file

\* current_file after a FileTask went to the writer
CurrentFile(task, current_file) ==
    IF "OPEN_FILE" \in task.flags THEN task.filename ELSE current_file

\* in_buffer with the entry of a chunk kept although it was its last use
KeptInBuffer(task, in_buffer) == in_buffer

\* in_buffer after a chunk task went to the writer
AfterForward(task, in_buffer) ==
    IF task.cleanup /\ task.chunk_file = <<>>
    THEN Removed(in_buffer, task.chunk_guid)
    ELSE in_buffer

\* a chunk task can go to the writer
Available(task, in_buffer) ==
    task.chunk_guid \in DOMAIN in_buffer \/ task.chunk_file # <<>>

\* task = self.tasks.popleft(), which ends the loop when nothing is left
Popped(d) ==
    IF tasks = <<>> THEN [d EXCEPT !.pc = "done", !.task = <<>>]
    ELSE [d EXCEPT !.task = <<Head(tasks)>>]

\* the thread is at the head of the outer loop with self.running set, or at
\* the head of the inner loop, which does not read self.running
AtChunkLoop == (drh.pc = "task" /\ running) \/ drh.pc = "inner"

\* where the inner loop goes on after a chunk task went to the writer: at
\* its own head when the next task is a chunk task, else at the outer one
NextHead(d) ==
    IF d.pc = "done" THEN d
    ELSE [d EXCEPT !.pc = IF d.task[1].kind = "chunk" THEN "inner" ELSE "task"]

\* the first task = self.tasks.popleft(); IndexError ends the thread
DrhStart ==
    /\ pc = "running"
    /\ drh.pc = "start"
    /\ IF tasks = <<>>
       THEN drh' = [drh EXCEPT !.pc = "dead"] /\ UNCHANGED tasks
       ELSE /\ drh' = [drh EXCEPT !.pc = IF running THEN "task" ELSE "done",
                                  !.task = <<Head(tasks)>>]
            /\ tasks' = Tail(tasks)
    /\ UNCHANGED <<planned, ground, pc, chunks_to_dl, running, active_tasks, sms,
                   dl_worker_queue, dl_result_q, writer_queue, writer_result_q,
                   since_last, djm, frh, main, hist, fsVars, mfVars, puVars>>

\* a FileTask goes to the writer as it is; when the put fails the task is
\* put back at the head of self.tasks and tried again
DrhFileTask ==
    /\ pc = "running"
    /\ drh.pc = "task"
    /\ running
    /\ drh.task[1].kind = "file"
    /\ \E ok \in PutOutcomes :
          IF ok
          THEN /\ writer_queue' = Append(writer_queue, WriterTask(drh.task[1]))
               /\ hist' = [hist EXCEPT !.written = Append(@, WriterTask(drh.task[1]))]
               /\ drh' = Popped([drh EXCEPT !.current_file =
                                    CurrentFile(drh.task[1], drh.current_file)])
               /\ tasks' = IF tasks = <<>> THEN tasks ELSE Tail(tasks)
          ELSE /\ tasks' = <<drh.task[1]>> \o tasks
               /\ hist' = [hist EXCEPT !.failed_puts = @ + 1]
               /\ UNCHANGED <<writer_queue, drh>>
    /\ UNCHANGED <<planned, ground, pc, chunks_to_dl, running, active_tasks, sms,
                   dl_worker_queue, dl_result_q, writer_result_q, since_last, djm,
                   frh, main, fsVars, mfVars, puVars>>

\* a chunk task whose chunk is in in_buffer or comes from a file goes to the
\* writer; its last use of a downloaded chunk removes the chunk from in_buffer
DrhChunkTask ==
    /\ pc = "running"
    /\ AtChunkLoop
    /\ drh.task[1].kind = "chunk"
    /\ Available(drh.task[1], drh.in_buffer)
    /\ \E ok \in PutOutcomes :
          IF ok
          THEN /\ writer_queue' =
                     Append(writer_queue,
                            ChunkWrite(drh.task[1], drh.current_file, drh.in_buffer))
               /\ hist' = [hist EXCEPT !.written =
                              Append(@, ChunkWrite(drh.task[1], drh.current_file,
                                                   drh.in_buffer))]
               /\ drh' = NextHead(Popped([drh EXCEPT !.in_buffer =
                                    AfterForward(drh.task[1], drh.in_buffer)]))
               /\ tasks' = IF tasks = <<>> THEN tasks ELSE Tail(tasks)
          ELSE /\ hist' = [hist EXCEPT !.failed_puts = @ + 1]
               /\ drh' = [drh EXCEPT !.pc = "task"]
               /\ UNCHANGED <<writer_queue, tasks>>
    /\ UNCHANGED <<planned, ground, pc, chunks_to_dl, running, active_tasks, sms,
                   dl_worker_queue, dl_result_q, writer_result_q, since_last, djm,
                   frh, main, fsVars, mfVars, puVars>>

\* res = self.dl_result_q.get() while the chunk of the task is missing, and
\* the read of self.active_tasks for the decrement
DrhGet ==
    /\ pc = "running"
    /\ AtChunkLoop
    /\ drh.task[1].kind = "chunk"
    /\ ~Available(drh.task[1], drh.in_buffer)
    /\ dl_result_q # <<>>
    /\ drh' = [drh EXCEPT !.pc = "dec", !.res = <<Head(dl_result_q)>>,
                          !.active_tasks = active_tasks,
                          !.before = active_tasks - hist.dispatched]
    /\ dl_result_q' = Tail(dl_result_q)
    /\ UNCHANGED <<planned, ground, pc, tasks, chunks_to_dl, running, active_tasks,
                   sms, dl_worker_queue, writer_queue, writer_result_q, since_last,
                   djm, frh, main, hist, fsVars, mfVars, puVars>>

\* self.active_tasks -= 1: the store; a successful result goes into in_buffer
\* and into the byte counters, a failed one is submitted again
DrhDec ==
    /\ pc = "running"
    /\ drh.pc = "dec"
    /\ active_tasks' = drh.active_tasks - 1
    /\ IF drh.res[1].success
       THEN /\ drh' = [drh EXCEPT !.pc = "task", !.res = <<>>, !.before = 0,
                          !.in_buffer = Stored(@, drh.res[1].chunk_guid, drh.res[1])]
            /\ since_last' =
                  [since_last EXCEPT
                      !.bytes_downloaded = @ + drh.res[1].size_downloaded,
                      !.bytes_decompressed = @ + drh.res[1].size_decompressed]
       ELSE /\ drh' = [drh EXCEPT !.pc = "retry"]
            /\ UNCHANGED since_last
    /\ UNCHANGED <<planned, ground, pc, tasks, chunks_to_dl, running, sms,
                   dl_worker_queue, dl_result_q, writer_queue, writer_result_q, djm,
                   frh, main, hist, fsVars, mfVars, puVars>>

\* dl_worker_queue.put(res) of a failed result; when the put fails the guid
\* goes to the head of the download queue
DrhRetry ==
    /\ pc = "running"
    /\ drh.pc = "retry"
    /\ \E ok \in PutOutcomes :
          IF ok
          THEN /\ dl_worker_queue' = Append(dl_worker_queue, drh.res[1])
               /\ drh' = [drh EXCEPT !.pc = "restore", !.res = <<>>,
                                     !.active_tasks = active_tasks]
               /\ hist' = [hist EXCEPT !.submitted[drh.res[1].chunk_guid] = @ + 1]
               /\ UNCHANGED chunks_to_dl
          ELSE /\ chunks_to_dl' = <<drh.res[1].chunk_guid>> \o chunks_to_dl
               /\ drh' = [drh EXCEPT !.pc = "task", !.res = <<>>, !.before = 0]
               /\ hist' = [hist EXCEPT !.failed_puts = @ + 1]
               /\ UNCHANGED dl_worker_queue
    /\ UNCHANGED <<planned, ground, pc, tasks, running, active_tasks, sms,
                   dl_result_q, writer_queue, writer_result_q, since_last, djm, frh,
                   main, fsVars, mfVars, puVars>>

\* self.active_tasks += 1 after the retry: the store
DrhReStore ==
    /\ pc = "running"
    /\ drh.pc = "restore"
    /\ active_tasks' = drh.active_tasks + 1
    /\ drh' = [drh EXCEPT !.pc = "task", !.before = 0]
    /\ UNCHANGED <<planned, ground, pc, tasks, chunks_to_dl, running, sms,
                   dl_worker_queue, dl_result_q, writer_queue, writer_result_q,
                   since_last, djm, frh, main, hist, fsVars, mfVars, puVars>>

-----------------------------------------------------------------------------
(* The coordinator: fw_results_handler and the loop of run_real *)

\* res.filename without a trailing '.tmp'
WithoutTmp(filename) ==
    IF EndsWith(filename, DotTmp) THEN SubSeq(filename, 1, Len(filename) - 4)
    ELSE filename

\* a result is written to the resume file
Journalled(res) ==
    "CLOSE_FILE" \in res.flags /\ cfg[1].resume_file # "unset" /\ res.success

\* the resume file after f'{file_hash}:{res.filename}\n' was appended
Appended(filename) ==
    [exists |-> TRUE,
     lines |-> Append(journal.lines, hash_map[filename] \o <<58>> \o filename \o <<10>>)]

\* the counters after a result of a chunk write was handled
Counted(res) ==
    [since_last EXCEPT
        !.num_tasks_processed = @ + 1,
        !.bytes_written = @ + res.size,
        !.bytes_read = @ + (IF res.shared_memory = 0 THEN res.size ELSE 0),
        !.num_processed = @ + 1]

\* one result of the writer is handled; the lookup of a file no manifest
\* names raises KeyError, which ends the handling of the result
Handled(res) ==
    /\ hist' = [hist EXCEPT
                   !.handled = @ + 1,
                   !.released = IF "RELEASE_MEMORY" \in res.flags
                                   /\ ~(Journalled(res)
                                        /\ WithoutTmp(res.filename) \notin DOMAIN hash_map)
                                THEN [@ EXCEPT ![res.shared_memory] = @ + 1]
                                ELSE @]
    /\ IF Journalled(res) /\ WithoutTmp(res.filename) \notin DOMAIN hash_map
       THEN /\ since_last' = [since_last EXCEPT !.num_tasks_processed = @ + 1]
            /\ UNCHANGED <<journal, sms>>
       ELSE /\ journal' = IF Journalled(res) THEN Appended(WithoutTmp(res.filename))
                          ELSE journal
            /\ sms' = IF "RELEASE_MEMORY" \in res.flags
                      THEN <<res.shared_memory>> \o sms ELSE sms
            /\ since_last' = IF res.chunk_guid # 0 THEN Counted(res)
                             ELSE [since_last EXCEPT !.num_tasks_processed = @ + 1]

\* res = self.writer_result_q.get() and what follows it
FrhResult ==
    /\ pc = "running"
    /\ frh.pc = "loop"
    /\ running
    /\ writer_result_q # <<>>
    /\ writer_result_q' = Tail(writer_result_q)
    /\ IF Head(writer_result_q).kind = "terminate"
       THEN /\ frh' = [frh EXCEPT !.pc = "done"]
            /\ UNCHANGED <<hist, journal, sms, since_last>>
       ELSE /\ Handled(Head(writer_result_q))
            /\ UNCHANGED frh
    /\ UNCHANGED <<planned, children, disk, shm, pc, tasks, chunks_to_dl, running,
                   active_tasks, dl_worker_queue, dl_result_q, writer_queue, djm, drh,
                   main, fsVars, mfVars, puVars>>

\* the loop of run_real adds the counters to its totals
MainRead ==
    /\ pc = "running"
    /\ main.pc = "loop"
    /\ main.processed_tasks < main.num_tasks
    /\ main' = [main EXCEPT
                   !.pc = "reset",
                   !.processed_chunks = @ + since_last.num_processed,
                   !.processed_tasks = @ + since_last.num_tasks_processed,
                   !.total_dl = @ + since_last.bytes_downloaded,
                   !.total_write = @ + since_last.bytes_written]
    /\ UNCHANGED <<planned, ground, pc, tasks, chunks_to_dl, running, active_tasks,
                   sms, dl_worker_queue, dl_result_q, writer_queue, writer_result_q,
                   since_last, djm, drh, frh, hist, fsVars, mfVars, puVars>>

\* and sets the counters to 0
MainReset ==
    /\ pc = "running"
    /\ main.pc = "reset"
    /\ since_last' = NoCounts
    /\ main' = [main EXCEPT !.pc = "loop"]
    /\ UNCHANGED <<planned, ground, pc, tasks, chunks_to_dl, running, active_tasks,
                   sms, dl_worker_queue, dl_result_q, writer_queue, writer_result_q,
                   djm, drh, frh, hist, fsVars, mfVars, puVars>>

\* after the loop: a TerminateWorkerTask for every download worker and one
\* for the writer
MainShutdown ==
    /\ pc = "running"
    /\ main.pc = "loop"
    /\ main.processed_tasks >= main.num_tasks
    /\ dl_worker_queue' =
          dl_worker_queue \o [i \in 1..cfg[1].max_workers |-> TerminateWorkerTask]
    /\ writer_queue' = Append(writer_queue, TerminateWorkerTask)
    /\ main' = [main EXCEPT !.pc = "join"]
    /\ hist' = [hist EXCEPT !.sentinels = [workers |-> @.workers + cfg[1].max_workers,
                                           writer |-> @.writer + 1]]
    /\ UNCHANGED <<planned, ground, pc, tasks, chunks_to_dl, running, active_tasks,
                   sms, dl_result_q, writer_result_q, since_last, djm, drh, frh,
                   fsVars, mfVars, puVars>>

\* the writer is joined or terminated, the workers still alive are
\* terminated, the resume file is removed, the shared memory is closed and
\* unlinked and the process exits
MainExit ==
    /\ pc = "running"
    /\ main.pc = "join"
    /\ children' = [children EXCEPT !.workers = 0, !.writer = "exited"]
    /\ journal' = IF cfg[1].resume_file # "unset"
                  THEN [exists |-> FALSE, lines |-> <<>>] ELSE journal
    /\ main' = [main EXCEPT !.pc = "done", !.shared_memory = "unlinked"]
    /\ pc' = "exited"
    /\ UNCHANGED <<planned, disk, shm, tasks, chunks_to_dl, running, active_tasks,
                   sms, dl_worker_queue, dl_result_q, writer_queue, writer_result_q,
                   since_last, djm, drh, frh, hist, fsVars, mfVars, puVars>>

-----------------------------------------------------------------------------
(* The worker processes: the download workers and the file writer *)

\* s without its i-th element
RemoveAt(s, i) == SubSeq(s, 1, i - 1) \o SubSeq(s, i + 1, Len(s))

\* the ChunkInfo of the chunk whose number is g
ChunkOf(g) ==
    CHOOSE c \in Range(cfg[1].manifest.chunk_data_list.elements) : GuidNumOf(c.guid) = g

\* what a download worker answers to a task: on success the sizes of the
\* chunk, on failure the task as it came
DownloadResult(task, ok) ==
    [task EXCEPT !.success = ok,
                 !.size_downloaded = IF ok THEN ChunkOf(task.chunk_guid).file_size ELSE 0,
                 !.size_decompressed = IF ok THEN ChunkOf(task.chunk_guid).window_size
                                       ELSE 0]

\* one of the workers takes a task, one of the first max_workers of the
\* queue, loads and unpacks the chunk into the slot and reports
DLWorkerStep ==
    /\ pc = "running"
    /\ \E i \in 1..Min(children.workers, Len(dl_worker_queue)) :
          /\ dl_worker_queue[i].kind = "task"
          /\ \E ok \in DlOutcomes :
                /\ dl_result_q' =
                      Append(dl_result_q, DownloadResult(dl_worker_queue[i], ok))
                /\ shm' = IF ok THEN [shm EXCEPT ![dl_worker_queue[i].shm] =
                                         dl_worker_queue[i].chunk_guid]
                          ELSE shm
                /\ hist' = [hist EXCEPT
                               !.failed_downloads = IF ok THEN @ ELSE @ + 1,
                               !.dl_failed[dl_worker_queue[i].chunk_guid] =
                                   IF ok THEN @ ELSE @ + 1]
          /\ dl_worker_queue' = RemoveAt(dl_worker_queue, i)
    /\ UNCHANGED <<planned, children, disk, journal, pc, tasks, chunks_to_dl, running,
                   active_tasks, sms, writer_queue, writer_result_q, since_last, djm,
                   drh, frh, main, fsVars, mfVars, puVars>>

\* a worker takes a TerminateWorkerTask and exits
DLWorkerExit ==
    /\ pc = "running"
    /\ \E i \in 1..Min(children.workers, Len(dl_worker_queue)) :
          /\ dl_worker_queue[i].kind = "terminate"
          /\ dl_worker_queue' = RemoveAt(dl_worker_queue, i)
    /\ children' = [children EXCEPT !.workers = @ - 1]
    /\ UNCHANGED <<planned, disk, journal, shm, pc, tasks, chunks_to_dl, running,
                   active_tasks, sms, dl_result_q, writer_queue, writer_result_q,
                   since_last, djm, drh, frh, main, hist, fsVars, mfVars, puVars>>

\* the bytes a chunk write takes from its slot or from old_file
Source(task) ==
    IF task.shared_memory # 0
    THEN ChunkBytes(shm[task.shared_memory], task.chunk_offset, task.chunk_size)
    ELSE SubSeq(disk[task.old_file], task.chunk_offset + 1,
                task.chunk_offset + task.chunk_size)

\* the writer can do what the task asks for
Succeeds(task) ==
    IF task.chunk_guid # 0
    THEN /\ children.current_file # <<>>
         /\ \/ task.shared_memory # 0
            \/ /\ task.old_file \in DOMAIN disk
               /\ Len(disk[task.old_file]) >= task.chunk_offset + task.chunk_size
    ELSE IF "RENAME_FILE" \in task.flags THEN task.old_file \in DOMAIN disk
    ELSE IF "DELETE_FILE" \in task.flags
    THEN task.filename \in DOMAIN disk \/ "SILENT" \in task.flags
    ELSE IF "MAKE_EXECUTABLE" \in task.flags THEN task.filename \in DOMAIN disk
    ELSE IF "CLOSE_FILE" \in task.flags THEN children.current_file # <<>>
    ELSE TRUE

\* the install directory after the writer did what the task asks for
DiskAfter(task) ==
    IF task.chunk_guid # 0
    THEN Stored(disk, children.current_file, disk[children.current_file] \o Source(task))
    ELSE IF "RENAME_FILE" \in task.flags
    THEN Removed(Stored(disk, task.filename, disk[task.old_file]), task.old_file)
    ELSE IF "DELETE_FILE" \in task.flags THEN Removed(disk, task.filename)
    ELSE IF task.flags \cap {"OPEN_FILE", "CREATE_EMPTY_FILE"} # {}
    THEN Stored(disk, task.filename, <<>>)
    ELSE disk

\* the file the writer has open after the task
OpenAfter(task) ==
    IF "OPEN_FILE" \in task.flags THEN task.filename
    ELSE IF "CLOSE_FILE" \in task.flags THEN <<>>
    ELSE children.current_file

\* what the writer answers to a task
WriterResult(task, ok) ==
    [kind |-> "task", filename |-> task.filename, chunk_guid |-> task.chunk_guid,
     size |-> task.chunk_size, shared_memory |-> task.shared_memory,
     flags |-> task.flags, success |-> ok]

\* the writer takes a task, acts on the install directory and reports
WriterStep ==
    /\ pc = "running"
    /\ children.writer = "alive"
    /\ writer_queue # <<>>
    /\ Head(writer_queue).kind = "task"
    /\ writer_queue' = Tail(writer_queue)
    /\ writer_result_q' =
          Append(writer_result_q,
                 WriterResult(Head(writer_queue), Succeeds(Head(writer_queue))))
    /\ IF Succeeds(Head(writer_queue))
       THEN /\ disk' = DiskAfter(Head(writer_queue))
            /\ children' = [children EXCEPT !.current_file = OpenAfter(Head(writer_queue))]
            /\ UNCHANGED hist
       ELSE /\ hist' = [hist EXCEPT !.failed_writes = @ + 1]
            /\ UNCHANGED <<disk, children>>
    /\ UNCHANGED <<planned, journal, shm, pc, tasks, chunks_to_dl, running,
                   active_tasks, sms, dl_worker_queue, dl_result_q, since_last, djm,
                   drh, frh, main, fsVars, mfVars, puVars>>

\* the writer takes the TerminateWorkerTask, passes it on to the results and
\* exits
WriterExit ==
    /\ pc = "running"
    /\ children.writer = "alive"
    /\ writer_queue # <<>>
    /\ Head(writer_queue).kind = "terminate"
    /\ writer_queue' = Tail(writer_queue)
    /\ writer_result_q' = Append(writer_result_q, TerminateWorkerTask)
    /\ children' = [children EXCEPT !.writer = "exited"]
    /\ UNCHANGED <<planned, disk, journal, shm, pc, tasks, chunks_to_dl, running,
                   active_tasks, sms, dl_worker_queue, dl_result_q, since_last, djm,
                   drh, frh, main, hist, fsVars, mfVars, puVars>>

-----------------------------------------------------------------------------
(* The installer run on a few installations *)

\* chunks of 32 MiB, so that an arena of 32 MiB is one slot and one of 64 MiB two
Window == 32 * MiB

\* a first installation of an executable of two chunks through one slot
Fresh ==
    [Settings(NewManifest(<<NewFile(NameA, <<<<1, 0, 1>>, <<2, 0, 1>>>>, <<>>, 4)>>,
                          Window), <<>>)
        EXCEPT !.max_shared_memory = Window, !.resume_file = "absent"]

\* an update whose file 'b' keeps a part of its old content
Update ==
    [Settings(NewManifest(<<NewFile(NameB, <<<<1, 1, 1>>, <<2, 0, 1>>>>, <<>>, 0),
                            NewFile(NameC, <<>>, <<>>, 0)>>, Window),
              <<NewManifest(<<NewFile(NameA, <<<<3, 0, 1>>>>, <<>>, 0),
                              NewFile(NameB, <<<<1, 0, 2>>>>, <<>>, 0)>>, Window)>>)
        EXCEPT !.max_shared_memory = Window]

\* an update of 'a' and 'b' with 'a' excluded, reading from written files
Excluding ==
    [Settings(NewManifest(<<NewFile(NameA, <<<<2, 0, 2>>>>, <<>>, 0),
                            NewFile(NameB, <<<<2, 0, 2>>, <<1, 0, 1>>>>, <<>>, 0)>>,
                          Window),
              <<NewManifest(<<NewFile(NameA, <<<<1, 0, 2>>>>, <<>>, 0)>>, Window)>>)
        EXCEPT !.max_shared_memory = Window, !.read_files = TRUE,
               !.file_exclude_filter = <<NameA>>]

\* a first installation of one file by two workers into two slots
TwoWorkers ==
    [Settings(NewManifest(<<NewFile(NameA, <<<<1, 0, 1>>, <<2, 0, 1>>>>, <<>>, 0)>>,
                          Window), <<>>)
        EXCEPT !.max_shared_memory = 2 * Window, !.max_workers = 2]

\* a first installation of a file of one chunk, with queues and downloads
\* that can fail
Faulty ==
    [Settings(NewManifest(<<NewFile(NameA, <<<<1, 0, 1>>>>, <<>>, 0)>>, Window), <<>>)
        EXCEPT !.max_shared_memory = 2 * Window, !.put_faults = TRUE, !.dl_faults = TRUE]

\* the installation of TwoWorkers by one worker, with downloads that can fail
Retrying == [TwoWorkers EXCEPT !.max_workers = 1, !.dl_faults = TRUE]

\* an installation that needs more shared memory than it is given
TooSmall == [Settings(EightShared, <<>>) EXCEPT !.max_shared_memory = 4 * MiB]

\* a first installation of a file whose own name ends in .tmp, with a journal
TmpNamed ==
    [Settings(NewManifest(<<NewFile(NameA \o DotTmp, <<<<1, 0, 1>>>>, <<>>, 0)>>,
                          Window), <<>>)
        EXCEPT !.max_shared_memory = Window, !.resume_file = "absent"]

RunScenarios ==
    {Fresh, Update, Excluding, TwoWorkers, Faulty, Retrying, TooSmall, TmpNamed}

Init ==
    /\ FsIdle
    /\ MfIdle
    /\ PuIdle
    /\ \E c \in RunScenarios : DLManager_init(c)

Next ==
    \/ RunAnalysis
    \/ Run
    \/ DjmPop
    \/ DjmPut
    \/ DjmStore
    \/ DrhStart
    \/ DrhFileTask
    \/ DrhChunkTask
    \/ DrhGet
    \/ DrhDec
    \/ DrhRetry
    \/ DrhReStore
    \/ FrhResult
    \/ MainRead
    \/ MainReset
    \/ MainShutdown
    \/ MainExit
    \/ DLWorkerStep
    \/ DLWorkerExit
    \/ WriterStep
    \/ WriterExit

Spec == Init /\ [][Next]_vars

-----------------------------------------------------------------------------
(* Properties of the run *)

\* the files of the new manifest that one of the four filters skips
FilteredOut(conf) ==
    TagSkips(conf) \cup ExcludeSkips(conf) \cup ConfiguredSkips(conf)
        \cup IncludeSkips(conf)

(* C2: after a run that completed, with planning succeeded, every download *)
(* in the end succeeded and every write succeeded, every file of the new   *)
(* manifest that no filter skipped holds at its final path the bytes its   *)
(* chunk parts name, in their order.                                       *)
C2_InstalledContent ==
    (pc = "exited" /\ hist.failed_puts = 0 /\ hist.failed_writes = 0) =>
        \A fm \in Range(cfg[1].manifest.file_manifest_list.elements) :
            fm.filename \notin FilteredOut(cfg[1]) =>
                /\ fm.filename \in DOMAIN disk
                /\ disk[fm.filename] = Content(fm.chunk_parts)

(* C3: when the run has completed, every slot was released by a writer     *)
(* result with RELEASE_MEMORY as often as the dispatcher took it from the   *)
(* free pool, also when downloads or puts on the worker queue failed.       *)
C3_ReleasesMatchPops ==
    pc = "exited" =>
        \A s \in DOMAIN hist.popped : hist.released[s] = hist.popped[s]

\* the slots carried by download tasks: the one the dispatcher is about to
\* put, those in the worker queue, in the result queue and in the result the
\* handler has taken and not stored
InFlightSlots ==
    (IF djm.pc = "put" THEN <<djm.sms>> ELSE <<>>)
    \o [i \in 1..Len(SelectSeq(dl_worker_queue, LAMBDA t : t.kind = "task")) |->
           SelectSeq(dl_worker_queue, LAMBDA t : t.kind = "task")[i].shm]
    \o [i \in 1..Len(dl_result_q) |-> dl_result_q[i].shm]
    \o (IF drh.pc \in {"dec", "retry"} THEN <<drh.res[1].shm>> ELSE <<>>)

\* the slots of the writer tasks and results that carry RELEASE_MEMORY
ReleasedIn(queue) ==
    [i \in 1..Len(SelectSeq(queue, LAMBDA t : t.kind = "task"
                                               /\ "RELEASE_MEMORY" \in t.flags)) |->
        SelectSeq(queue, LAMBDA t : t.kind = "task"
                                    /\ "RELEASE_MEMORY" \in t.flags)[i].shared_memory]

\* the slots that hold a downloaded chunk: those of in_buffer and those on
\* their way to the release
OccupiedSlots ==
    {drh.in_buffer[g].shm : g \in DOMAIN drh.in_buffer}
        \cup Range(ReleasedIn(writer_queue)) \cup Range(ReleasedIn(writer_result_q))

\* no element occurs twice in s
Injective(s) == \A i, j \in 1..Len(s) : s[i] = s[j] => i = j

(* C4: a slot is free (in the free deque), in flight (taken from the deque  *)
(* for a download that has not delivered) or occupied (held by in_buffer or *)
(* on its way to the release), and never two of them: it is in the deque    *)
(* at most once and exactly while it has been released as often as taken,   *)
(* no two download tasks carry it, no two guids of in_buffer share it, and  *)
(* a slot that is occupied is in no download task. At most one writer task  *)
(* with RELEASE_MEMORY is under way per slot, never more of them were       *)
(* written than the slot was taken, and none reads from a file.             *)
C4_SlotStates ==
    pc \in {"running", "exited"} =>
        /\ Injective(sms \o InFlightSlots)
        /\ Range(sms \o InFlightSlots) \cap OccupiedSlots = {}
        /\ \A s \in DOMAIN hist.popped :
              /\ hist.popped[s] - hist.released[s] \in {0, 1}
              /\ s \in Range(sms) <=> hist.popped[s] = hist.released[s]
              /\ s \in Range(InFlightSlots) \cup OccupiedSlots
                    => hist.popped[s] > hist.released[s]
              /\ Len(SelectSeq(hist.written,
                        LAMBDA t : "RELEASE_MEMORY" \in t.flags /\ t.shared_memory = s))
                    <= hist.popped[s]
        /\ \A g, h \in DOMAIN drh.in_buffer :
              drh.in_buffer[g].shm = drh.in_buffer[h].shm => g = h
        /\ Injective(ReleasedIn(writer_queue) \o ReleasedIn(writer_result_q))
        /\ Range(ReleasedIn(writer_queue) \o ReleasedIn(writer_result_q))
              \cap {drh.in_buffer[g].shm : g \in DOMAIN drh.in_buffer} = {}
        /\ \A i \in 1..Len(hist.written) :
              "RELEASE_MEMORY" \in hist.written[i].flags =>
                  hist.written[i].old_file = <<>> /\ hist.written[i].shared_memory # 0

\* a slot is in its second residency: released once, taken again and held
\* by in_buffer
C4_Witness ==
    /\ pc = "running"
    /\ \E g \in DOMAIN drh.in_buffer :
          /\ hist.popped[drh.in_buffer[g].shm] = 2
          /\ hist.released[drh.in_buffer[g].shm] = 1

(* C5: the writer tasks are put in the order of the task stream, none left  *)
(* out, whatever the order of the download results; every chunk write       *)
(* names the file of the last OPEN_FILE put before it, and no CLOSE_FILE    *)
(* lies between the two.                                                    *)
C5_StreamOrder ==
    /\ \A i, j \in 1..Len(hist.written) :
          i < j => hist.written[i].pos <= hist.written[j].pos
    /\ \A j \in 1..Len(hist.written) :
          \A p \in 1..hist.written[j].pos :
              \E i \in 1..j : hist.written[i].pos = p
    /\ \A j \in 1..Len(hist.written) :
          hist.written[j].chunk_guid # 0 =>
              \E i \in 1..(j - 1) :
                  /\ "OPEN_FILE" \in hist.written[i].flags
                  /\ hist.written[i].filename = hist.written[j].filename
                  /\ \A k \in (i + 1)..(j - 1) :
                        hist.written[k].flags \cap {"OPEN_FILE", "CLOSE_FILE"} = {}

\* the result of a later chunk has arrived before the one the task stream
\* needs next, and the file is open
C5_Witness ==
    /\ pc = "running"
    /\ drh.pc = "task"
    /\ drh.task[1].kind = "chunk"
    /\ ~Available(drh.task[1], drh.in_buffer)
    /\ DOMAIN drh.in_buffer # {}
    /\ hist.written # <<>>

\* the download tasks put on the worker queue whose result has not been
\* taken from the result queue
Outstanding ==
    Len(SelectSeq(dl_worker_queue, LAMBDA t : t.kind = "task")) + Len(dl_result_q)

(* C7: no update of a counter is lost: whenever neither the dispatcher nor  *)
(* the handler is between a queue operation and its update of active_tasks, *)
(* active_tasks is the number of outstanding download tasks, and whenever   *)
(* the loop of run_real is not between its read and its reset, the tasks    *)
(* it has counted and the tasks counted since are the writer results        *)
(* handled.                                                                 *)
C7_NoLostUpdate ==
    pc \in {"running", "exited"} =>
        /\ (djm.pc # "store" /\ drh.pc \notin {"dec", "restore"})
              => active_tasks = Outstanding
        /\ main.pc # "reset"
              => main.processed_tasks + since_last.num_tasks_processed = hist.handled

-----------------------------------------------------------------------------
(* ManifestComparison.create applied on its own to a pair of manifests     *)

\* the content hashes a file manifest can carry: none, and two that differ
CmpHashes == {<<>>, ContentHash(<<1>>), ContentHash(<<2>>)}

CmpNames == <<NameA, NameB>>

\* the file lists over CmpNames: each name absent, or present with a hash
CmpFileLists ==
    {SelectSeq([i \in 1..Len(CmpNames) |->
                   [NewFile(CmpNames[i], <<>>, <<>>, 0) EXCEPT
                       !.hash = IF pick[i] = <<>> THEN <<>> ELSE pick[i][1]]],
               LAMBDA fm : \E i \in 1..Len(CmpNames) :
                              fm.filename = CmpNames[i] /\ pick[i] # <<>>)
        : pick \in [1..Len(CmpNames) -> {<<>>} \cup {<<h>> : h \in CmpHashes}]}

CmpManifest(files) ==
    [EmptyManifest EXCEPT
        !.file_manifest_list =
            [version |-> 0, size |-> 0, count |-> Len(files), elements |-> files]]

CmpInit ==
    /\ FsIdle
    /\ MfIdle
    /\ DmIdle
    /\ \E new \in CmpFileLists, old \in {<<>>} \cup {<<fl>> : fl \in CmpFileLists} :
          pu_in = [fn |-> "ManifestComparison.create",
                   manifest |-> CmpManifest(new),
                   old_manifest |-> IF old = <<>> THEN <<>>
                                    ELSE <<CmpManifest(old[1])>>]
    /\ pu_out = <<>>

\* comp = ManifestComparison.create(manifest, old_manifest)
CmpCreate ==
    /\ pu_in # <<>>
    /\ pu_in.fn = "ManifestComparison.create"
    /\ pu_out = <<>>
    /\ pu_out' = <<ManifestComparison_create(pu_in.manifest, pu_in.old_manifest)>>
    /\ UNCHANGED <<pu_in, fsVars, mfVars, dmVars>>

CmpNext == CmpCreate

SpecCompare == CmpInit /\ [][CmpNext]_vars

\* the hash of the file called n in a file list
CmpHashOf(elems, n) == get_file_by_path(elems, n).hash

\* the names in both manifests of the call
CmpCommon ==
    FileNames(pu_in.manifest) \cap FileNames(pu_in.old_manifest[1])

(* C11: ManifestComparison.create puts a name in added when only the new   *)
(* manifest has it, in removed when only the old one has it, in changed    *)
(* when both have it with different hashes and in unchanged when both have *)
(* it with the same hash, whatever the hashes are; without an old manifest *)
(* every new name is added and the other three sets are empty.             *)
C11_Classification ==
    (pu_in # <<>> /\ pu_in.fn = "ManifestComparison.create" /\ pu_out # <<>>) =>
        IF pu_in.old_manifest = <<>>
        THEN pu_out[1] = [EmptyComparison EXCEPT !.added = FileNames(pu_in.manifest)]
        ELSE /\ pu_out[1].added
                  = FileNames(pu_in.manifest) \ FileNames(pu_in.old_manifest[1])
             /\ pu_out[1].removed
                  = FileNames(pu_in.old_manifest[1]) \ FileNames(pu_in.manifest)
             /\ pu_out[1].changed
                  = {n \in CmpCommon :
                        CmpHashOf(pu_in.manifest.file_manifest_list.elements, n)
                          # CmpHashOf(pu_in.old_manifest[1].file_manifest_list.elements, n)}
             /\ pu_out[1].unchanged
                  = {n \in CmpCommon :
                        CmpHashOf(pu_in.manifest.file_manifest_list.elements, n)
                          = CmpHashOf(pu_in.old_manifest[1].file_manifest_list.elements, n)}

-----------------------------------------------------------------------------
(* Files the old and the new manifest hold alike *)

\* the names both manifests list with the same chunk parts and the same,
\* non-empty, content hash
IdenticalFiles ==
    IF cfg[1].old_manifest = <<>> THEN {}
    ELSE {n \in FileNames(cfg[1].manifest) \cap FileNames(cfg[1].old_manifest[1]) :
            /\ get_file_by_path(cfg[1].manifest.file_manifest_list.elements, n).hash # <<>>
            /\ get_file_by_path(cfg[1].manifest.file_manifest_list.elements, n).hash
                 = get_file_by_path(cfg[1].old_manifest[1].file_manifest_list.elements, n).hash
            /\ get_file_by_path(cfg[1].manifest.file_manifest_list.elements, n).chunk_parts
                 = get_file_by_path(cfg[1].old_manifest[1].file_manifest_list.elements,
                                    n).chunk_parts}

\* run_analysis looks for the files of the manifest in the install directory
ProbeRuns == cfg[1].resume /\ cfg[1].resume_file \in {"unset", "absent"}

\* the positions of the tasks that name the file n or its temporary file
TasksNaming(n) ==
    {i \in 1..Len(tasks) :
        tasks[i].kind = "file" /\ tasks[i].filename \in {n, n \o DotTmp}}

\* the sizes of the files of the new manifest whose name is in S, summed
SizeOfFiles(S) ==
    SumSeq(FileSizes(SelectSeq(cfg[1].manifest.file_manifest_list.elements,
                               LAMBDA fm : fm.filename \in S)))

\* the files of the new manifest that name the chunk g
FilesNaming(g) ==
    {fm.filename : fm \in {f \in Range(cfg[1].manifest.file_manifest_list.elements) :
                              g \in Range(PartGuids(f))}}

-----------------------------------------------------------------------------
(* The block of tasks of one file in the task stream *)

\* the file manifest called n of the manifest that is installed
NewFm(n) == get_file_by_path(cfg[1].manifest.file_manifest_list.elements, n)

\* the files run_analysis emits tasks for: those it left out of unchanged
Processed == FileNames(cfg[1].manifest) \ analysis[1].manifest_comparison.unchanged

\* a chunk part of the changed file n lies within a chunk part of the file
\* of the same name in the old manifest, and patching is on
PatchedFromOld(n) ==
    /\ cfg[1].patch
    /\ cfg[1].old_manifest # <<>>
    /\ n \in analysis[1].manifest_comparison.changed
    /\ \E cp \in Range(NewFm(n).chunk_parts),
          old \in Range(get_file_by_path(
                           cfg[1].old_manifest[1].file_manifest_list.elements,
                           n).chunk_parts) :
          /\ old.guid = cp.guid
          /\ old.offset <= cp.offset
          /\ cp.offset + cp.size <= old.offset + old.size

\* the name the file n is written under
WrittenAs(n) == IF PatchedFromOld(n) THEN n \o DotTmp ELSE n

\* the positions at which the file n is opened
OpensOf(n) ==
    {i \in 1..Len(tasks) :
        tasks[i].kind = "file" /\ tasks[i].flags = {"OPEN_FILE"}
                               /\ tasks[i].filename \in {n, n \o DotTmp}}

\* the number of tasks of the file n
BlockLen(n) ==
    IF NewFm(n).chunk_parts = <<>> THEN 1
    ELSE Len(NewFm(n).chunk_parts) + 2
           + (IF PatchedFromOld(n) THEN 1 ELSE 0)
           + (IF executable(NewFm(n)) THEN 1 ELSE 0)

\* the task at position i is the file task with these fields
IsFileTask(i, filename, flags, old_file) ==
    /\ i <= Len(tasks)
    /\ tasks[i].kind = "file"
    /\ tasks[i].filename = filename
    /\ tasks[i].flags = flags
    /\ tasks[i].old_file = old_file

\* the tasks from position i on are the block of the file n, which has chunk
\* parts
BlockAt(i, n) ==
    /\ IsFileTask(i, WrittenAs(n), {"OPEN_FILE"}, <<>>)
    /\ i + BlockLen(n) - 1 <= Len(tasks)
    /\ \A j \in 1..Len(NewFm(n).chunk_parts) :
          /\ tasks[i + j].kind = "chunk"
          /\ tasks[i + j].chunk_guid = GuidNumOf(NewFm(n).chunk_parts[j].guid)
          /\ tasks[i + j].chunk_size = NewFm(n).chunk_parts[j].size
          /\ tasks[i + j].chunk_file = <<>>
                => tasks[i + j].chunk_offset = NewFm(n).chunk_parts[j].offset
    /\ IsFileTask(i + Len(NewFm(n).chunk_parts) + 1, WrittenAs(n), {"CLOSE_FILE"}, <<>>)
    /\ PatchedFromOld(n) =>
          IsFileTask(i + Len(NewFm(n).chunk_parts) + 2, n,
                     {"RENAME_FILE", "DELETE_FILE"}, n \o DotTmp)
    /\ executable(NewFm(n)) =>
          IsFileTask(i + BlockLen(n) - 1, n, {"MAKE_EXECUTABLE"}, <<>>)

\* the number of tasks of all processed files
BlocksLen ==
    SumSeq([i \in 1..Len(cfg[1].manifest.file_manifest_list.elements) |->
               IF cfg[1].manifest.file_manifest_list.elements[i].filename \in Processed
               THEN BlockLen(cfg[1].manifest.file_manifest_list.elements[i].filename)
               ELSE 0])

\* the delete tasks that close the stream
TrailingDeletes ==
    Cardinality(analysis[1].manifest_comparison.removed)
      + Cardinality(TagSkips(cfg[1]))

(* C13: after run_analysis every processed file with chunk parts has one   *)
(* block in the stream: OPEN_FILE, a chunk task per chunk part in order,   *)
(* CLOSE_FILE, under the name F.tmp and followed by RENAME_FILE|DELETE_FILE*)
(* from F.tmp to F exactly when a chunk part is re-used from the old file; *)
(* MAKE_EXECUTABLE follows exactly when F is executable; a processed file  *)
(* without chunk parts has the single task CREATE_EMPTY_FILE; the stream   *)
(* holds nothing else before its trailing delete tasks.                    *)
C13_FileBlocks ==
    pc = "analysed" =>
        /\ \A n \in Processed :
              IF NewFm(n).chunk_parts = <<>>
              THEN /\ \E i \in 1..Len(tasks) :
                         IsFileTask(i, n, {"CREATE_EMPTY_FILE"}, <<>>)
                   /\ Cardinality({i \in 1..Len(tasks) :
                          tasks[i].kind = "file"
                            /\ tasks[i].filename \in {n, n \o DotTmp}}) = 1
              ELSE /\ Cardinality(OpensOf(n)) = 1
                   /\ \A i \in OpensOf(n) : BlockAt(i, n)
                   /\ Cardinality({i \in 1..Len(tasks) :
                          tasks[i].kind = "file"
                            /\ tasks[i].filename \in {n, n \o DotTmp}})
                        = BlockLen(n) - Len(NewFm(n).chunk_parts)
        /\ Len(tasks) = BlocksLen + TrailingDeletes

\* the stream holds the block of an executable file that is patched from its
\* old version, next to the task of an empty file
C13_Witness ==
    /\ pc = "analysed"
    /\ \E n \in Processed :
          /\ PatchedFromOld(n)
          /\ executable(NewFm(n))
          /\ \E i \in OpensOf(n) :
                /\ BlockAt(i, n)
                /\ \E j \in 1..Len(NewFm(n).chunk_parts) : tasks[i + j].chunk_file = n
                /\ \E j \in 1..Len(NewFm(n).chunk_parts) : tasks[i + j].chunk_file = <<>>
    /\ \E n \in Processed : NewFm(n).chunk_parts = <<>>

-----------------------------------------------------------------------------
(* The resume journal as run_analysis reads it *)

\* run_analysis reads the journal: resume is on and the journal can be read
JournalRead == cfg[1].resume /\ cfg[1].resume_file = "present"

\* no filter is set that moves files to unchanged
NoFilters ==
    /\ cfg[1].file_install_tag = <<>>
    /\ cfg[1].file_exclude_filter = <<>>
    /\ cfg[1].file_exclude_configured = <<>>
    /\ cfg[1].file_prefix_filter = <<>>

\* the records of the journal
JournalEntries ==
    {JournalEntry(cfg[1].resume_lines[k]) : k \in 1..Len(cfg[1].resume_lines)}

\* the record names a file of the new manifest that is in the install
\* directory, with the hash the manifest has for it
Completed(e) ==
    /\ Exists(cfg[1].disk, e.filename)
    /\ HasPath(cfg[1].manifest.file_manifest_list.elements, e.filename)
    /\ e.file_hash = Hex(NewFm(e.filename).hash)

\* the sets of the comparison that hold the name n
ClassOf(mc, n) ==
    {k \in {"added", "removed", "changed", "unchanged"} : n \in mc[k]}

\* the file n is written by the task stream
Rewritten(n) ==
    \/ OpensOf(n) # {}
    \/ \E i \in 1..Len(tasks) : IsFileTask(i, n, {"CREATE_EMPTY_FILE"}, <<>>)

(* C14: when run_analysis reads the journal and no filter is set, a record *)
(* whose file is on disk with the hash of the new manifest puts the file   *)
(* in unchanged and no task names it; a record whose file is not on disk,  *)
(* or has another hash, leaves the file in the set the comparison of the   *)
(* manifests put it in, and a file left in added or changed is written.    *)
C14_JournalSkips ==
    (pc = "analysed" /\ JournalRead /\ NoFilters) =>
        \A e \in JournalEntries :
            /\ Completed(e) =>
                  /\ ClassOf(analysis[1].manifest_comparison, e.filename) = {"unchanged"}
                  /\ TasksNaming(e.filename) = {}
            /\ (~Completed(e)
                  /\ HasPath(cfg[1].manifest.file_manifest_list.elements, e.filename)) =>
                  /\ ClassOf(analysis[1].manifest_comparison, e.filename)
                       = ClassOf(ManifestComparison_create(cfg[1].manifest,
                                                           cfg[1].old_manifest),
                                 e.filename)
                  /\ (ClassOf(analysis[1].manifest_comparison, e.filename)
                        \cap {"added", "changed"} # {}) => Rewritten(e.filename)

-----------------------------------------------------------------------------
(* install_size with and without a record of the resume journal *)

\* the settings of the run with the record e taken out of the journal
WithoutRecord(e) ==
    [cfg[1] EXCEPT !.resume_lines = SelectSeq(@, LAMBDA l : JournalEntry(l) # e)]

\* the journal is read to its end: every record whose file is on disk names a
\* file of the new manifest
JournalApplies ==
    /\ JournalRead
    /\ \A e \in JournalEntries :
          Exists(cfg[1].disk, e.filename)
             => HasPath(cfg[1].manifest.file_manifest_list.elements, e.filename)

-----------------------------------------------------------------------------
(* The resume journal as fw_results_handler writes it *)

\* the file of the new manifest whose block the file task named f closes
ClosedFile(f) == CHOOSE n \in Processed : WrittenAs(n) = f

(* C16: every step of fw_results_handler that handles a result with        *)
(* CLOSE_FILE and success while a journal path is configured appends one   *)
(* record to the journal, the hex hash the new manifest has for the closed *)
(* file, a colon and the file name without a trailing .tmp; the handling   *)
(* of any other result leaves the journal as it is.                        *)
C16_JournalRecords ==
    [][(hist'.handled = hist.handled + 1) =>
          IF /\ "CLOSE_FILE" \in Head(writer_result_q).flags
             /\ Head(writer_result_q).success
             /\ cfg[1].resume_file # "unset"
          THEN /\ journal'.exists
               /\ journal'.lines
                    = Append(journal.lines,
                             Hex(NewFm(ClosedFile(Head(writer_result_q).filename)).hash)
                               \o <<58>> \o WithoutTmp(Head(writer_result_q).filename)
                               \o <<10>>)
          ELSE journal' = journal]_vars


-----------------------------------------------------------------------------
(* Cancellation: KeyboardInterrupt in run_real and what DLManager.run does  *)
(* with it                                                                  *)

\* KeyboardInterrupt is raised in run_real, in its loop or while it joins
\* the writer; run sets self.running to False and notifies both conditions,
\* which wakes the threads that wait
Interrupt ==
    /\ pc = "running"
    /\ running
    /\ main.pc \in {"loop", "reset", "join"}
    /\ running' = FALSE
    /\ main' = [main EXCEPT !.pc = "interrupted"]
    /\ UNCHANGED <<planned, ground, pc, tasks, chunks_to_dl, active_tasks, sms,
                   dl_worker_queue, dl_result_q, writer_queue, writer_result_q,
                   since_last, djm, drh, frh, hist, fsVars, mfVars, puVars>>

\* download_job_manager comes back from task_cond.wait or shm_cond.wait, by
\* notify or after its second, to the head of the outer loop and finds
\* self.running False
DjmWait ==
    /\ pc = "running"
    /\ djm.pc = "inner"
    /\ chunks_to_dl # <<>>
    /\ ~(active_tasks < cfg[1].max_workers * 2 /\ sms # <<>>)
    /\ ~running
    /\ djm' = [djm EXCEPT !.pc = "done"]
    /\ UNCHANGED <<planned, ground, pc, tasks, chunks_to_dl, running, active_tasks,
                   sms, dl_worker_queue, dl_result_q, writer_queue, writer_result_q,
                   since_last, drh, frh, main, hist, fsVars, mfVars, puVars>>

\* dl_results_handler finds self.running False at the head of its outer
\* loop, where it is at once or after dl_result_q.get timed out with Empty
DrhQuit ==
    /\ pc = "running"
    /\ ~running
    /\ \/ drh.pc = "task"
       \/ /\ drh.pc = "inner"
          /\ ~Available(drh.task[1], drh.in_buffer)
          /\ dl_result_q = <<>>
    /\ drh' = [drh EXCEPT !.pc = "done"]
    /\ UNCHANGED <<planned, ground, pc, tasks, chunks_to_dl, running, active_tasks,
                   sms, dl_worker_queue, dl_result_q, writer_queue, writer_result_q,
                   since_last, djm, frh, main, hist, fsVars, mfVars, puVars>>

\* fw_results_handler finds self.running False at the head of its loop
FrhQuit ==
    /\ pc = "running"
    /\ frh.pc = "loop"
    /\ ~running
    /\ frh' = [frh EXCEPT !.pc = "done"]
    /\ UNCHANGED <<planned, ground, pc, tasks, chunks_to_dl, running, active_tasks,
                   sms, dl_worker_queue, dl_result_q, writer_queue, writer_result_q,
                   since_last, djm, drh, main, hist, fsVars, mfVars, puVars>>

\* the three threads have ended
ThreadsEnded ==
    /\ djm.pc = "done"
    /\ drh.pc \in {"done", "dead"}
    /\ frh.pc = "done"

\* t.join(timeout=5.0) of the three threads, which end within their waits
\* of a second
CancelJoin ==
    /\ pc = "running"
    /\ main.pc = "interrupted"
    /\ ThreadsEnded
    /\ main' = [main EXCEPT !.pc = "joined"]
    /\ UNCHANGED <<planned, ground, pc, tasks, chunks_to_dl, running, active_tasks,
                   sms, dl_worker_queue, dl_result_q, writer_queue, writer_result_q,
                   since_last, djm, drh, frh, hist, fsVars, mfVars, puVars>>

\* child.join(timeout=5.0) and child.terminate() of the workers and of the
\* writer, none of which has been sent a TerminateWorkerTask by run
CancelChildren ==
    /\ pc = "running"
    /\ main.pc = "joined"
    /\ children' = [children EXCEPT !.workers = 0, !.writer = "exited"]
    /\ main' = [main EXCEPT !.pc = "drain"]
    /\ UNCHANGED <<planned, disk, journal, shm, pc, tasks, chunks_to_dl, running,
                   active_tasks, sms, dl_worker_queue, dl_result_q, writer_queue,
                   writer_result_q, since_last, djm, drh, frh, hist, fsVars, mfVars,
                   puVars>>

\* the four queues are emptied and closed, and run returns; the shared
\* memory is left as it is
CancelDrain ==
    /\ pc = "running"
    /\ main.pc = "drain"
    /\ dl_worker_queue' = <<>>
    /\ writer_queue' = <<>>
    /\ dl_result_q' = <<>>
    /\ writer_result_q' = <<>>
    /\ main' = [main EXCEPT !.pc = "returned"]
    /\ pc' = "cancelled"
    /\ UNCHANGED <<planned, ground, tasks, chunks_to_dl, running, active_tasks, sms,
                   since_last, djm, drh, frh, hist, fsVars, mfVars, puVars>>

-----------------------------------------------------------------------------
(* Fair scheduling of the threads and of the processes                      *)

\* the steps of download_job_manager
DjmThread == DjmPop \/ DjmPut \/ DjmStore \/ DjmWait

\* the steps of dl_results_handler
DrhThread ==
    DrhStart \/ DrhFileTask \/ DrhChunkTask \/ DrhGet \/ DrhDec \/ DrhRetry
        \/ DrhReStore \/ DrhQuit

\* the steps of fw_results_handler
FrhThread == FrhResult \/ FrhQuit

\* the steps of the thread that calls run_analysis and run
MainThread ==
    RunAnalysis \/ Run \/ MainRead \/ MainReset \/ MainShutdown \/ MainExit
        \/ CancelJoin \/ CancelChildren \/ CancelDrain

\* every thread and every process that can take a step takes one in the end:
\* the threads of the coordinator are scheduled by the interpreter, the
\* workers and the writer are processes of their own; the interrupt comes
\* from outside and need not come
Fairness ==
    /\ WF_vars(DjmThread)
    /\ WF_vars(DrhThread)
    /\ WF_vars(FrhThread)
    /\ WF_vars(MainThread)
    /\ WF_vars(DLWorkerStep \/ DLWorkerExit)
    /\ WF_vars(WriterStep \/ WriterExit)

\* the installations of the fair runs: queues and downloads that can fail
FairScenarios == {Faulty}

FairInit ==
    /\ FsIdle
    /\ MfIdle
    /\ PuIdle
    /\ \E c \in FairScenarios : DLManager_init(c)

\* the run without an interrupt
SpecFair == FairInit /\ [][Next]_vars /\ Fairness

\* the installations of the runs that can be interrupted
CancelScenarios == {Faulty, Fresh}

CancelInit ==
    /\ FsIdle
    /\ MfIdle
    /\ PuIdle
    /\ \E c \in CancelScenarios : DLManager_init(c)

CancelNext ==
    \/ Next
    \/ Interrupt
    \/ DjmWait
    \/ DrhQuit
    \/ FrhQuit
    \/ CancelJoin
    \/ CancelChildren
    \/ CancelDrain

\* the run with an interrupt at any time
SpecCancel == CancelInit /\ [][CancelNext]_vars /\ Fairness

-----------------------------------------------------------------------------
(* The end of the run                                                       *)

\* the TerminateWorkerTasks of a queue
Sentinels(queue) == {i \in 1..Len(queue) : queue[i].kind = "terminate"}

\* the positions in the planner's stream of the tasks forwarded to the writer
Forwarded == {hist.written[i].pos : i \in 1..Len(hist.written)}

\* the writer has returned one result for each task of the planner's stream
AllReturned ==
    /\ pc = "running"
    /\ Forwarded = 1..main.num_tasks
    /\ Sentinels(writer_queue) = 1..Len(writer_queue)

\* the loop of run_real is left with every task counted
LoopLeft ==
    /\ pc \in {"running", "exited"}
    /\ main.pc \in {"join", "done"}
    /\ main.processed_tasks = main.num_tasks

\* the step that leaves the loop of run_real
SendsSentinels == pc = "running" /\ main.pc = "loop" /\ main'.pc = "join"

\* once every task has its result the loop is left with every task counted
CountReachesTotal == AllReturned ~> LoopLeft

\* the step that leaves the loop puts max_workers TerminateWorkerTasks into
\* the download worker queue and one into the writer queue; no other step
\* puts one
SentinelCounts ==
    [][IF SendsSentinels
       THEN /\ dl_worker_queue' = dl_worker_queue
                  \o [i \in 1..cfg[1].max_workers |-> TerminateWorkerTask]
            /\ writer_queue' = Append(writer_queue, TerminateWorkerTask)
       ELSE /\ Cardinality(Sentinels(dl_worker_queue'))
                  <= Cardinality(Sentinels(dl_worker_queue))
            /\ Cardinality(Sentinels(writer_queue'))
                  <= Cardinality(Sentinels(writer_queue))]_vars

\* no TerminateWorkerTask is in a queue while a task of the planner has not
\* been forwarded to the writer
NoEarlySentinel ==
    [](pc = "running" /\ Sentinels(dl_worker_queue) \cup Sentinels(writer_queue) # {}
          => Forwarded = 1..main.num_tasks)

(* C17: under fair scheduling, once the writer has returned one result for  *)
(* each task of the planner's stream, the processed-task count of the loop  *)
(* of run_real reaches the number of tasks and the loop is left; the step   *)
(* that leaves it puts exactly max_workers TerminateWorkerTasks into the    *)
(* download worker queue and exactly one into the writer queue, no other    *)
(* step puts one, and none is in a queue while a task of the planner has    *)
(* not been forwarded to the writer.                                        *)
C17_SentinelsAfterAllTasks == CountReachesTotal /\ SentinelCounts /\ NoEarlySentinel



-----------------------------------------------------------------------------
(* The end of the threads after an interrupt                                *)

\* how far download_job_manager is from its end once self.running is False:
\* at the head of the outer loop one step, in the inner loop three steps
\* for every guid it can still take
DjmRank ==
    CASE djm.pc = "done" -> 0
      [] djm.pc = "loop" -> 1
      [] djm.pc = "inner" -> 3 * Len(chunks_to_dl) + 2
      [] djm.pc = "store" -> 3 * Len(chunks_to_dl) + 3
      [] djm.pc = "put" -> 3 * Len(chunks_to_dl) + 4

\* the same for dl_results_handler: the inner loop goes through the chunk
\* tasks that follow each other, a result taken is stored or submitted again
DrhRank ==
    CASE drh.pc \in {"done", "dead"} -> 0
      [] drh.pc = "task" -> 1
      [] drh.pc = "restore" -> 2
      [] drh.pc = "retry" -> 3
      [] drh.pc = "dec" -> 4
      [] drh.pc = "inner" -> 5 + Len(tasks)
      [] drh.pc = "start" -> 6 + Len(tasks)

\* and for fw_results_handler
FrhRank == IF frh.pc = "done" THEN 0 ELSE 1

\* with self.running False every step of a coordinator thread brings it
\* nearer to its end, and a thread at the head of its outer loop ends
StepsTowardsExit ==
    [][pc = "running" /\ ~running
          => /\ djm' # djm => DjmRank' < DjmRank
             /\ drh' # drh => DrhRank' < DrhRank
             /\ frh' # frh => FrhRank' < FrhRank
             /\ djm' # djm /\ djm.pc = "loop" => djm'.pc = "done"
             /\ drh' # drh /\ drh.pc = "task" => drh'.pc = "done"
             /\ frh' # frh /\ frh.pc = "loop" => frh'.pc = "done"]_vars

\* with self.running False a coordinator thread that has not ended can take
\* a step: none of its waits is without an end
CanStep ==
    [](pc = "running" /\ ~running
          => /\ djm.pc # "done" => ENABLED DjmThread
             /\ drh.pc \notin {"done", "dead"} => ENABLED DrhThread
             /\ frh.pc # "done" => ENABLED FrhThread)

(* C18: once self.running is False and the conditions are notified, each of *)
(* the three coordinator threads (download_job_manager, dl_results_handler, *)
(* fw_results_handler) ends within a bounded number of its own steps, from  *)
(* every reachable state: until it has ended it can take a step, whether it *)
(* waits for a free slot, for a task slot, for a download result or has a   *)
(* failed put behind it; each of its steps brings it nearer to its end; and *)
(* at the head of its outer loop its next step is its end.                  *)
C18_LoopsExitOnCancel == CanStep /\ StepsTowardsExit

\* the three threads have ended by the interrupt: guids are left to
\* download, tasks are left to forward, and the writer is alive
C18_Witness ==
    /\ pc = "running"
    /\ ~running
    /\ ThreadsEnded
    /\ chunks_to_dl # <<>>
    /\ sms = <<>>
    /\ tasks # <<>>
    /\ children.writer = "alive"


-----------------------------------------------------------------------------
(* What is left behind by an interrupted run                                *)

(* C19: when run has returned after a KeyboardInterrupt, self.running is    *)
(* False, the three threads have been joined, the four queues are empty,    *)
(* every download worker and the writer has been sent a TerminateWorkerTask *)
(* and the shared memory has been closed and unlinked.                      *)
C19_CancelTearsDown ==
    pc = "cancelled"
        => /\ ~running
           /\ ThreadsEnded
           /\ dl_worker_queue = <<>> /\ writer_queue = <<>>
           /\ dl_result_q = <<>> /\ writer_result_q = <<>>
           /\ hist.sentinels = [workers |-> cfg[1].max_workers, writer |-> 1]
           /\ main.shared_memory = "unlinked"


-----------------------------------------------------------------------------
(* Downloads that fail                                                      *)

\* the guid numbers of the chunks of the installations that run
GuidNums == 1..3

\* the step of dl_results_handler that puts a failed result on the worker
\* queue again puts a task of the same guid and the same slot
SameTaskAgain ==
    [][pc = "running" /\ drh.pc = "retry" /\ drh'.pc = "restore"
          => /\ Len(dl_worker_queue') = Len(dl_worker_queue) + 1
             /\ dl_worker_queue'[Len(dl_worker_queue')].kind = "task"
             /\ dl_worker_queue'[Len(dl_worker_queue')].chunk_guid
                   = drh.res[1].chunk_guid
             /\ dl_worker_queue'[Len(dl_worker_queue')].shm = drh.res[1].shm]_vars

\* after the put succeeded, self.active_tasks is what it was when the failed
\* result was taken, the tasks download_job_manager has added since apart
ActiveRestored ==
    [][pc = "running" /\ drh.pc = "restore" /\ drh'.pc = "task"
          => active_tasks' - hist'.dispatched = drh.before]_vars

\* no guid is left in the download queue with nobody to take it from there
NoGuidGivenUp == [](pc = "running" /\ chunks_to_dl # <<>> => djm.pc # "done")

\* every guid is submitted once, and once more for each of its failures
SubmittedOncePerFailure ==
    [](pc \in {"running", "exited"}
          => \A g \in DOMAIN hist.submitted :
                /\ hist.submitted[g] <= hist.dl_failed[g] + 1
                /\ pc = "exited" => hist.submitted[g] = hist.dl_failed[g] + 1)

\* a guid all of whose downloads have failed is submitted again
SubmittedAgain ==
    \A g \in GuidNums :
        (/\ pc = "running"
         /\ g \in DOMAIN hist.submitted
         /\ hist.submitted[g] > 0
         /\ hist.dl_failed[g] = hist.submitted[g])
            ~> (/\ g \in DOMAIN hist.submitted
                /\ hist.submitted[g] = hist.dl_failed[g] + 1)

(* C20: a download result that reports failure is put on the worker queue  *)
(* again as a task of the same guid and the same slot, and after that put   *)
(* succeeded active_tasks has the value it had before the failed result was *)
(* taken from the result queue; retries are not capped: the coordinator     *)
(* never gives up on a guid, and a chunk whose download failed k times is   *)
(* submitted to the workers k + 1 times.                                    *)
C20_FailedDownloadRetried ==
    /\ SameTaskAgain
    /\ ActiveRestored
    /\ NoGuidGivenUp
    /\ SubmittedOncePerFailure
    /\ SubmittedAgain

-----------------------------------------------------------------------------
(* Manifest.apply_delta_manifest and the lookup maps of FML and CDL.  A    *)
(* lookup map is <<>> for None and <<d>> for the dict d.                   *)

\* the index a lookup map built over the keys of a list holds: the last
\* element with the key wins
IndexMap(keys) ==
    [k \in Range(keys) |->
        CHOOSE i \in 1..Len(keys) :
            keys[i] = k /\ \A j \in (i + 1)..Len(keys) : keys[j] # k]

\* 'not self._path_map': None or an empty dict
NoMap(map) == map = <<>> \/ DOMAIN map[1] = {}

\* FML.get_file_by_path: [ok, v, fml]; ok = FALSE when it raises
FML_get_file_by_path(fml, path) ==
    LET built == IF NoMap(fml.path_map)
                 THEN [fml EXCEPT !.path_map =
                          <<IndexMap([i \in 1..Len(fml.elements) |->
                                         fml.elements[i].filename])>>]
                 ELSE fml
    IN  IF path \in DOMAIN built.path_map[1]
           /\ built.path_map[1][path] <= Len(built.elements)
        THEN [ok |-> TRUE, v |-> <<built.elements[built.path_map[1][path]]>>,
              fml |-> built]
        ELSE [ok |-> FALSE, v |-> <<>>, fml |-> built]

\* CDL.get_chunk_by_guid_num: [ok, v, cdl]; building the index reads
\* chunk.guid_num of every chunk
CDL_get_chunk_by_guid_num(cdl, guid_int) ==
    LET built == IF NoMap(cdl.guid_int_map)
                 THEN [CDL_touch_guid_nums(cdl) EXCEPT !.guid_int_map =
                          <<IndexMap([i \in 1..Len(cdl.elements) |->
                                         GuidNumOf(cdl.elements[i].guid)])>>]
                 ELSE cdl
    IN  IF guid_int \in DOMAIN built.guid_int_map[1]
           /\ built.guid_int_map[1][guid_int] <= Len(built.elements)
        THEN [ok |-> TRUE, v |-> <<built.elements[built.guid_int_map[1][guid_int]]>>,
              cdl |-> built]
        ELSE [ok |-> FALSE, v |-> <<>>, cdl |-> built]

RECURSIVE OverwriteFiles(_, _, _)
\* the first loop of apply_delta_manifest from index idx on:
\* [elements, added, delta_fml]
OverwriteFiles(elements, delta_fml, idx) ==
    IF idx > Len(elements)
    THEN [elements |-> elements, added |-> {}, delta_fml |-> delta_fml]
    ELSE LET r == FML_get_file_by_path(delta_fml, elements[idx].filename)
             rest == OverwriteFiles(IF r.ok THEN [elements EXCEPT ![idx] = r.v[1]]
                                    ELSE elements,
                                    r.fml, idx + 1)
         IN  [rest EXCEPT !.added = IF r.ok THEN @ \cup {r.v[1].filename} ELSE @]

\* the files of apply_delta_manifest: [fml, delta_fml]
DeltaFiles(fml, delta_fml, invalidate) ==
    LET o == OverwriteFiles(fml.elements, delta_fml, 1)
        elements == o.elements
                    \o SelectSeq(delta_fml.elements,
                                 LAMBDA f : f.filename \notin o.added)
    IN  [fml |-> [fml EXCEPT !.elements = elements,
                             !.count = Len(elements),
                             !.path_map = IF invalidate THEN <<>> ELSE @],
         delta_fml |-> o.delta_fml]

\* the chunks of apply_delta_manifest: [cdl, delta_cdl]
DeltaChunks(cdl, delta_cdl, invalidate) ==
    LET indexed == CDL_get_chunk_by_guid_num(cdl, 0).cdl
        existing_chunk_guids == DOMAIN indexed.guid_int_map[1]
        touched == CDL_touch_guid_nums(delta_cdl)
        elements == indexed.elements
                    \o SelectSeq(touched.elements,
                                 LAMBDA c : c.guid_num_cache \notin existing_chunk_guids)
    IN  [cdl |-> [indexed EXCEPT !.elements = elements,
                                 !.count = Len(elements),
                                 !.guid_int_map = IF invalidate THEN <<>> ELSE @],
         delta_cdl |-> touched]

\* apply_delta_manifest as it would be if the maps were left in place
apply_delta_keeping_maps(base, delta_manifest) ==
    LET f == DeltaFiles(base.file_manifest_list, delta_manifest.file_manifest_list,
                        FALSE)
        c == DeltaChunks(base.chunk_data_list, delta_manifest.chunk_data_list, FALSE)
    IN  [base |-> [base EXCEPT !.file_manifest_list = f.fml,
                               !.chunk_data_list = c.cdl],
         delta_manifest |-> [delta_manifest EXCEPT
                                !.file_manifest_list = f.delta_fml,
                                !.chunk_data_list = c.delta_cdl]]

\* Manifest.apply_delta_manifest: [base, delta_manifest], both after the call
apply_delta_manifest(base, delta_manifest) ==
    LET f == DeltaFiles(base.file_manifest_list, delta_manifest.file_manifest_list,
                        TRUE)
        c == DeltaChunks(base.chunk_data_list, delta_manifest.chunk_data_list, TRUE)
    IN  [base |-> [base EXCEPT !.file_manifest_list = f.fml,
                               !.chunk_data_list = c.cdl],
         delta_manifest |-> [delta_manifest EXCEPT
                                !.file_manifest_list = f.delta_fml,
                                !.chunk_data_list = c.delta_cdl]]

\* the file names and the guid numbers of the merged manifests
DeltaNames == {NameA, NameB, NameC}

DeltaGuids == {0, 1, 2}

\* the lists of up to n different elements of S
DistinctSeqs(S, n) ==
    {s \in SeqsUpTo(S, n) : \A i, j \in 1..Len(s) : s[i] = s[j] => i = j}

\* a manifest as Manifest.read_all leaves it: FML._path_map an empty dict,
\* the maps of the CDL None; 'gen' tells the base's entries from the delta's
DeltaManifest(names, guids, gen) ==
    [EmptyManifest EXCEPT
        !.file_manifest_list =
            [version |-> 0, size |-> 0, count |-> Len(names),
             elements |-> [i \in 1..Len(names) |->
                              NewFile(names[i], <<<<gen, 0, 1>>>>, <<>>, 0)],
             path_map |-> <<EmptyDict>>],
        !.chunk_data_list =
            [version |-> 0, size |-> 0, count |-> Len(guids), manifest_version |-> 18,
             elements |-> [i \in 1..Len(guids) |->
                              NewChunkInfo(Guid(guids[i]), gen, Bytes20, 7, 2, 1)],
             guid_int_map |-> <<>>]]

DeltaInit ==
    /\ FsIdle
    /\ DmIdle
    /\ \E bn \in DistinctSeqs(DeltaNames, 2), dn \in DistinctSeqs(DeltaNames, 2),
          bg \in DistinctSeqs(DeltaGuids, 2), dg \in DistinctSeqs(DeltaGuids, 2) :
          /\ mf_obj = DeltaManifest(bn, bg, 1)
          /\ pu_in = [fn |-> "apply_delta_manifest",
                      base |-> DeltaManifest(bn, bg, 1),
                      delta_manifest |-> DeltaManifest(dn, dg, 2)]
    /\ mf_src = <<>>
    /\ mf_wire = <<>>
    /\ mf_padded = FALSE
    /\ mf_back = <<>>
    /\ mf_pc = "base"
    /\ mf_gen = 0
    /\ mf_from45 = FALSE
    /\ pu_out = <<>>

\* base.apply_delta_manifest(delta_manifest); pu_in.base keeps the base as it
\* was read
DeltaApply ==
    /\ mf_pc = "base"
    /\ LET r == apply_delta_manifest(mf_obj, pu_in.delta_manifest)
       IN  /\ mf_obj' = r.base
           /\ pu_in' = [pu_in EXCEPT !.delta_manifest = r.delta_manifest]
    /\ mf_pc' = "merged"
    /\ pu_out' = <<>>
    /\ UNCHANGED <<mf_src, mf_wire, mf_padded, mf_back, mf_gen, mf_from45,
                   fsVars, dmVars>>

\* base.file_manifest_list.get_file_by_path(path), before or after the merge
DeltaLookupFile ==
    /\ mf_pc \in {"base", "merged"}
    /\ \E path \in DeltaNames :
          LET r == FML_get_file_by_path(mf_obj.file_manifest_list, path)
          IN  /\ mf_obj' = [mf_obj EXCEPT !.file_manifest_list = r.fml]
              /\ pu_out' = <<[fn |-> "get_file_by_path", arg |-> path,
                              ok |-> r.ok, v |-> r.v]>>
    /\ UNCHANGED <<pu_in, mf_src, mf_wire, mf_padded, mf_back, mf_pc, mf_gen,
                   mf_from45, fsVars, dmVars>>

\* base.chunk_data_list.get_chunk_by_guid(guid_int), before or after the merge
DeltaLookupChunk ==
    /\ mf_pc \in {"base", "merged"}
    /\ \E guid_int \in DeltaGuids :
          LET r == CDL_get_chunk_by_guid_num(mf_obj.chunk_data_list, guid_int)
          IN  /\ mf_obj' = [mf_obj EXCEPT !.chunk_data_list = r.cdl]
              /\ pu_out' = <<[fn |-> "get_chunk_by_guid", arg |-> guid_int,
                              ok |-> r.ok, v |-> r.v]>>
    /\ UNCHANGED <<pu_in, mf_src, mf_wire, mf_padded, mf_back, mf_pc, mf_gen,
                   mf_from45, fsVars, dmVars>>

DeltaNext == DeltaApply \/ DeltaLookupFile \/ DeltaLookupChunk

SpecDelta == DeltaInit /\ [][DeltaNext]_vars

\* a chunk without its guid_num cache
Uncached(c) == [c EXCEPT !.guid_num_cache = NoneNum]

\* the keys of a list of files or chunks
NamesOf(elems) == {elems[i].filename : i \in 1..Len(elems)}

GuidNumsOf(elems) == {GuidNumOf(elems[i].guid) : i \in 1..Len(elems)}

\* the files expected after the merge
MergedFiles(b, d) ==
    [i \in 1..Len(b) |->
        IF b[i].filename \in NamesOf(d)
        THEN d[CHOOSE j \in 1..Len(d) : d[j].filename = b[i].filename]
        ELSE b[i]]
    \o SelectSeq(d, LAMBDA f : f.filename \notin NamesOf(b))

\* the chunks expected after the merge, caches aside
MergedChunks(b, d) ==
    [i \in 1..Len(b) |-> Uncached(b[i])]
    \o SelectSeq([i \in 1..Len(d) |-> Uncached(d[i])],
                 LAMBDA c : GuidNumOf(c.guid) \notin GuidNumsOf(b))

\* the last lookup returned what the list holds under the key
LookupAgrees ==
    pu_out # <<>> =>
        IF pu_out[1].fn = "get_file_by_path"
        THEN LET e == mf_obj.file_manifest_list.elements
             IN  /\ pu_out[1].ok = (pu_out[1].arg \in NamesOf(e))
                 /\ pu_out[1].ok =>
                       /\ pu_out[1].v[1].filename = pu_out[1].arg
                       /\ pu_out[1].v[1] \in Range(e)
        ELSE LET e == mf_obj.chunk_data_list.elements
             IN  /\ pu_out[1].ok = (pu_out[1].arg \in GuidNumsOf(e))
                 /\ pu_out[1].ok =>
                       /\ GuidNumOf(pu_out[1].v[1].guid) = pu_out[1].arg
                       /\ pu_out[1].v[1] \in Range(e)

(* C21: after base.apply_delta_manifest(delta) every base file named in    *)
(* the delta is replaced in place by the delta's entry, the other base     *)
(* files stay where they were, the delta's other files follow in delta     *)
(* order; the delta's chunks whose guid_num the base did not have are      *)
(* appended and no guid_num occurs twice; both counts are the lengths of   *)
(* the lists; and a lookup made afterwards returns the merged entry.       *)
C21_DeltaMerged ==
    mf_pc = "merged" =>
        LET fml == mf_obj.file_manifest_list
            cdl == mf_obj.chunk_data_list
        IN  /\ fml.elements
                 = MergedFiles(pu_in.base.file_manifest_list.elements,
                               pu_in.delta_manifest.file_manifest_list.elements)
            /\ [i \in 1..Len(cdl.elements) |-> Uncached(cdl.elements[i])]
                 = MergedChunks(pu_in.base.chunk_data_list.elements,
                                pu_in.delta_manifest.chunk_data_list.elements)
            /\ \A i, j \in 1..Len(cdl.elements) :
                  GuidNumOf(cdl.elements[i].guid) = GuidNumOf(cdl.elements[j].guid)
                     => i = j
            /\ fml.count = Len(fml.elements)
            /\ cdl.count = Len(cdl.elements)
            /\ LookupAgrees

\* after a merge that replaced a base file and appended some but not all of
\* the delta's chunks, a lookup found a file only the delta had
C21_Witness ==
    /\ mf_pc = "merged"
    /\ pu_out # <<>>
    /\ pu_out[1].fn = "get_file_by_path"
    /\ pu_out[1].ok
    /\ pu_out[1].arg \notin NamesOf(pu_in.base.file_manifest_list.elements)
    /\ \E i \in 1..Len(pu_in.base.file_manifest_list.elements) :
          /\ pu_in.base.file_manifest_list.elements[i].filename
                \in NamesOf(pu_in.delta_manifest.file_manifest_list.elements)
          /\ mf_obj.file_manifest_list.elements[i]
                # pu_in.base.file_manifest_list.elements[i]
    /\ Len(mf_obj.chunk_data_list.elements)
          > Len(pu_in.base.chunk_data_list.elements)
    /\ Len(mf_obj.chunk_data_list.elements)
          < Len(pu_in.base.chunk_data_list.elements)
            + Len(pu_in.delta_manifest.chunk_data_list.elements)

-----------------------------------------------------------------------------
(* ChunkInfo on its own: a chunk is constructed, the reader or a caller    *)
(* may store a group number, and guid_num, group_num and path are read in  *)
(* any order.  mf_src is <<g>> for the group number g that was stored last *)
(* through the setter and <<>> when none was.                              *)

\* ChunkInfo.path: [ok, v, c]; the path as its components <<directory,
\* group, hash, guid>>; ok = FALSE when '{:02d}'.format(None) raises
ChunkInfo_path(c, manifest_version) ==
    LET g == ChunkInfo_group_num(c)
    IN  [ok |-> g.v # NoneNum,
         v |-> <<get_chunk_dir(manifest_version), g.v, c.hash, c.guid>>,
         c |-> g.c]

\* the guid numbers and the group numbers of the chunks
ChunkGuids == 1..8

StoredGroups == {7, 50}

ChunkInit ==
    /\ FsIdle
    /\ DmIdle
    /\ \E g \in ChunkGuids :
          mf_obj = NewChunkInfo(Guid(g), 5, Bytes20, NoneNum, 2, 1)
    /\ mf_src = <<>>
    /\ mf_wire = <<>>
    /\ mf_padded = FALSE
    /\ mf_back = <<>>
    /\ mf_pc = "chunk"
    /\ mf_gen = 0
    /\ mf_from45 = FALSE
    /\ pu_in = <<>>
    /\ pu_out = <<>>

\* chunk.group_num = value (CDL.read, or any caller)
ChunkSetGroup ==
    /\ mf_pc = "chunk"
    /\ \E value \in StoredGroups :
          /\ mf_obj' = [mf_obj EXCEPT !.group_num_cache = value]
          /\ mf_src' = <<value>>
    /\ pu_out' = <<>>
    /\ UNCHANGED <<pu_in, mf_wire, mf_padded, mf_back, mf_pc, mf_gen, mf_from45,
                   fsVars, dmVars>>

\* chunk.guid_num
ChunkGuidNum ==
    /\ mf_pc = "chunk"
    /\ mf_obj' = ChunkInfo_guid_num(mf_obj)
    /\ pu_out' = <<[fn |-> "guid_num", ok |-> TRUE, v |-> mf_obj'.guid_num_cache]>>
    /\ UNCHANGED <<pu_in, mf_src, mf_wire, mf_padded, mf_back, mf_pc, mf_gen,
                   mf_from45, fsVars, dmVars>>

\* chunk.group_num
ChunkGroupNum ==
    /\ mf_pc = "chunk"
    /\ LET r == ChunkInfo_group_num(mf_obj)
       IN  /\ mf_obj' = r.c
           /\ pu_out' = <<[fn |-> "group_num", ok |-> TRUE, v |-> r.v]>>
    /\ UNCHANGED <<pu_in, mf_src, mf_wire, mf_padded, mf_back, mf_pc, mf_gen,
                   mf_from45, fsVars, dmVars>>

\* chunk.path
ChunkPath ==
    /\ mf_pc = "chunk"
    /\ \E manifest_version \in {12, 18} :
          LET r == ChunkInfo_path(mf_obj, manifest_version)
          IN  /\ mf_obj' = r.c
              /\ pu_out' = <<[fn |-> "path", ok |-> r.ok, v |-> r.v]>>
    /\ UNCHANGED <<pu_in, mf_src, mf_wire, mf_padded, mf_back, mf_pc, mf_gen,
                   mf_from45, fsVars, dmVars>>

ChunkNext == ChunkSetGroup \/ ChunkGuidNum \/ ChunkGroupNum \/ ChunkPath

SpecChunk == ChunkInit /\ [][ChunkNext]_vars

\* the group number the chunk is to report
ExpectedGroup ==
    IF mf_src # <<>> THEN mf_src[1] ELSE Crc32Mod100(mf_obj.guid)

(* C22: group_num, and the group in path, is the stored group number       *)
(* whenever one was stored and crc32(guid bytes) mod 100 only when none    *)
(* was, whether or not guid_num was read before; it is never None.         *)
C22_GroupNumStored ==
    (mf_pc = "chunk" /\ pu_out # <<>>) =>
        /\ pu_out[1].fn = "group_num" =>
              pu_out[1].v # NoneNum /\ pu_out[1].v = ExpectedGroup
        /\ pu_out[1].fn = "path" =>
              pu_out[1].ok /\ pu_out[1].v[2] = ExpectedGroup

-----------------------------------------------------------------------------
\* the guids the cache holds once the tasks up to position i have been
\* carried out: taken from the download at or before i and not yet given up
\* by a task with cleanup set
CachedAfter(i) ==
    {g \in Range(chunks_to_dl) :
        /\ \E j \in FromDownload(g) : j <= i
        /\ \A j \in FromDownload(g) : j <= i => ~tasks[j].cleanup}

(* C23: the cache requirement the planner reports is the high-water mark   *)
(* of the cache: after every chunk task of the stream, in the middle of a  *)
(* file as well as at its end, min_memory - 32 MiB is at least             *)
(* biggest_chunk times the number of chunks cached at that point.          *)
C23_CacheHighWater ==
    plan # <<>> =>
        \A i \in 1..Len(tasks) :
            tasks[i].kind = "chunk" =>
                plan[1].min_memory - 32 * MiB
                    >= biggest_chunk(cfg[1].manifest) * Cardinality(CachedAfter(i))

-----------------------------------------------------------------------------
(* Chunk parts taken from the old file *)

\* what run_analysis holds of its locals when the emission loop begins:
\* after the reference count, after the old-file scan, after the
\* written-file scan
PlannerLocals ==
    LET conf == cfg[1]
        mc == Filtered(conf, Resumed(conf,
                  ManifestComparison_create(conf.manifest, conf.old_manifest)))
        counted == CountRefs(SortedByName(conf.manifest.file_manifest_list.elements),
                             mc, conf.old_manifest, PlanStart(conf, mc))
        reused == Reused(conf, mc, counted)
    IN  [mc |-> mc, counted |-> counted, reused |-> reused,
         written |-> Written(conf, ProcessingOrder(conf, mc), reused)]

\* the chunk task of the j-th chunk part of the processed file n
TaskOf(n, j) == tasks[(CHOOSE i \in OpensOf(n) : TRUE) + j]

\* the chunk parts <<n, j>> of the processed files
PartsProcessed ==
    {<<n, j>> \in Processed \X (1..MaxSeq([i \in 1..Len(cfg[1].manifest.file_manifest_list.elements) |->
                                     Len(cfg[1].manifest.file_manifest_list.elements[i].chunk_parts)])) :
        j <= Len(NewFm(n).chunk_parts)}

\* the chunk parts of the old version of n
OldParts(n) ==
    get_file_by_path(cfg[1].old_manifest[1].file_manifest_list.elements, n).chunk_parts

\* the old chunk parts of n that hold the j-th new chunk part whole
HeldBy(n, j) ==
    {k \in 1..Len(OldParts(n)) :
        /\ OldParts(n)[k].guid = NewFm(n).chunk_parts[j].guid
        /\ OldParts(n)[k].offset <= NewFm(n).chunk_parts[j].offset
        /\ NewFm(n).chunk_parts[j].offset + NewFm(n).chunk_parts[j].size
              <= OldParts(n)[k].offset + OldParts(n)[k].size}

\* the j-th chunk part of n is taken from the old file n
TakenFromOld(n, j) == TaskOf(n, j).chunk_file = n

\* the offset in the old file at which the first old part that holds the
\* j-th chunk part of n has it
OldOffset(n, j) ==
    LET k == CHOOSE k \in HeldBy(n, j) : \A l \in HeldBy(n, j) : k <= l
    IN  SumSeq([l \in 1..(k - 1) |-> OldParts(n)[l].size])
          + (NewFm(n).chunk_parts[j].offset - OldParts(n)[k].offset)

\* a part of a changed file is taken from the old file exactly when an old
\* part holds it, and then at the offset of the first such part
OldSourceExact ==
    \A p \in PartsProcessed :
        p[1] \in analysis[1].manifest_comparison.changed =>
            /\ TakenFromOld(p[1], p[2]) <=> HeldBy(p[1], p[2]) # {}
            /\ TakenFromOld(p[1], p[2]) =>
                  TaskOf(p[1], p[2]).chunk_offset = OldOffset(p[1], p[2])

\* no part of an added file is taken from an old file, and an unchanged file
\* has no chunk task
OldSourceOnlyChanged ==
    /\ \A p \in PartsProcessed :
          p[1] \notin analysis[1].manifest_comparison.changed
             => ~TakenFromOld(p[1], p[2])
    /\ Processed \cap analysis[1].manifest_comparison.unchanged = {}

\* reuse_size is the size of the parts taken from the old file
ReuseSizeExact ==
    analysis[1].reuse_size
      = SumSeq([i \in 1..Len(tasks) |->
                   IF /\ tasks[i].kind = "chunk"
                      /\ \E p \in PartsProcessed :
                            /\ TakenFromOld(p[1], p[2])
                            /\ TaskOf(p[1], p[2]).pos = i
                   THEN tasks[i].chunk_size ELSE 0])

\* every queued guid is the guid of a part that is taken from the download
MarkedNotQueued ==
    \A g \in Range(chunks_to_dl) : FromDownload(g) # {}

\* the old-file scan takes one reference for every part it marks, and the
\* written-file scan takes none for such a part
DecrementedOnce ==
    /\ \A g \in DOMAIN PlannerLocals.counted.references :
          PlannerLocals.reused.references[g]
            = PlannerLocals.counted.references[g]
                - Cardinality({p \in PartsProcessed :
                                  /\ TakenFromOld(p[1], p[2])
                                  /\ GuidNumOf(NewFm(p[1]).chunk_parts[p[2]].guid) = g})
    /\ \A p \in PartsProcessed :
          TakenFromOld(p[1], p[2]) =>
              <<p[1], Key(NewFm(p[1]).chunk_parts[p[2]])>>
                 \notin DOMAIN PlannerLocals.written.reusable_written

(* C24: with patch on and an old manifest, a chunk part of a changed file  *)
(* is taken from the old file exactly when a chunk part of the old version *)
(* holds its range, at the offset of the first such old part; the          *)
(* reference count of its guid is decremented once for it; reuse_size is   *)
(* the size of all such parts; no download is queued for them; and no part *)
(* of an added or unchanged file is taken from an old file.                *)
C24_OldFileReuse ==
    (pc = "analysed" /\ cfg[1].patch /\ cfg[1].old_manifest # <<>>) =>
        /\ OldSourceExact
        /\ OldSourceOnlyChanged
        /\ ReuseSizeExact
        /\ MarkedNotQueued
        /\ DecrementedOnce

-----------------------------------------------------------------------------
(* Chunk parts taken from a file written earlier in the run *)

\* the chunk parts <<n, j>> that are taken from another file of the new
\* manifest
FromWritten ==
    {p \in PartsProcessed : TaskOf(p[1], p[2]).chunk_file \notin {<<>>, p[1]}}

\* the file src is complete at position i of the stream: it was closed, and
\* renamed if it was written under a temporary name
CompleteBefore(src, i) ==
    /\ \E k \in 1..(i - 1) : IsFileTask(k, WrittenAs(src), {"CLOSE_FILE"}, <<>>)
    /\ PatchedFromOld(src) =>
          \E k \in 1..(i - 1) :
              IsFileTask(k, src, {"RENAME_FILE", "DELETE_FILE"}, src \o DotTmp)

\* the source file is one this run writes, and it is complete when the task
\* is reached
SourceWritten ==
    \A p \in FromWritten :
        /\ TaskOf(p[1], p[2]).chunk_file \in Processed
        /\ TaskOf(p[1], p[2]).chunk_file
              \notin analysis[1].manifest_comparison.unchanged
        /\ CompleteBefore(TaskOf(p[1], p[2]).chunk_file, TaskOf(p[1], p[2]).pos)

\* the source range lies in the source file, and the file as the new
\* manifest describes it holds there the bytes of the chunk part
SourceHoldsBytes ==
    \A p \in FromWritten :
        LET t == TaskOf(p[1], p[2])
            cp == NewFm(p[1]).chunk_parts[p[2]]
            src == Content(NewFm(t.chunk_file).chunk_parts)
        IN  /\ t.chunk_offset + t.chunk_size <= Len(src)
            /\ SubSeq(src, t.chunk_offset + 1, t.chunk_offset + t.chunk_size)
                 = ChunkBytes(GuidNumOf(cp.guid), cp.offset, cp.size)

(* C25: with read_files on, every chunk task that takes its bytes from a   *)
(* new file names a file this run has already written: the CLOSE_FILE task *)
(* of the source (and its RENAME_FILE task, when it was written under a    *)
(* temporary name) comes earlier in the stream, the source is not in       *)
(* unchanged, and the source range lies inside the source file and holds   *)
(* the bytes of the chunk range asked for.                                 *)
C25_WrittenSource ==
    (pc = "analysed" /\ cfg[1].read_files) => SourceWritten /\ SourceHoldsBytes

-----------------------------------------------------------------------------
(* Selection by install tag *)

\* one of the given tags is a tag of the file, or the file has no tags and
\* the empty tag is given
Selected(fm) ==
    \/ \E t \in Range(cfg[1].file_install_tag[1]) : t \in Range(fm.install_tags)
    \/ fm.install_tags = <<>> /\ <<>> \in Range(cfg[1].file_install_tag[1])

\* the positions of the silent delete tasks, of the plain delete tasks and
\* of the tasks that write
SilentDeletes == {i \in 1..Len(tasks) : tasks[i].flags = {"DELETE_FILE", "SILENT"}}

PlainDeletes == {i \in 1..Len(tasks) : tasks[i].flags = {"DELETE_FILE"}}

WritingTasks == (1..Len(tasks)) \ (SilentDeletes \cup PlainDeletes)

(* C26: with file_install_tag set a file is selected exactly when one of   *)
(* its install tags is given, or it has none and the empty tag is given;   *)
(* a file that is not selected is in unchanged and not in added or         *)
(* changed, has no open, chunk or close task and has exactly one           *)
(* DELETE_FILE|SILENT task; the stream ends with one DELETE_FILE task for  *)
(* each removed file name, after every task that writes, and after those   *)
(* the silent deletes.                                                     *)
C26_InstallTags ==
    (pc = "analysed" /\ cfg[1].file_install_tag # <<>>) =>
        /\ \A fm \in Range(cfg[1].manifest.file_manifest_list.elements) :
              IF Selected(fm)
              THEN \A i \in SilentDeletes : tasks[i].filename # fm.filename
              ELSE /\ fm.filename \in analysis[1].manifest_comparison.unchanged
                   /\ fm.filename \notin analysis[1].manifest_comparison.added
                   /\ fm.filename \notin analysis[1].manifest_comparison.changed
                   /\ TasksNaming(fm.filename) \subseteq SilentDeletes
                   /\ Cardinality(TasksNaming(fm.filename)) = 1
        /\ \A i \in SilentDeletes :
              \E fm \in Range(cfg[1].manifest.file_manifest_list.elements) :
                  tasks[i].filename = fm.filename
        /\ {tasks[i].filename : i \in PlainDeletes}
              = analysis[1].manifest_comparison.removed
        /\ Cardinality(PlainDeletes)
              = Cardinality(analysis[1].manifest_comparison.removed)
        /\ \A w \in WritingTasks, d \in PlainDeletes : w < d
        /\ \A w \in WritingTasks \cup PlainDeletes, s \in SilentDeletes : w < s

\* only the empty tag is given: the files without tags are written, a tagged
\* file is deleted silently after the deletes of two removed files
C26_Witness ==
    /\ pc = "analysed"
    /\ cfg[1].file_install_tag = <<<<<<>>>>>>
    /\ \E fm \in Range(cfg[1].manifest.file_manifest_list.elements) :
          /\ Selected(fm)
          /\ fm.install_tags = <<>>
          /\ OpensOf(fm.filename) # {}
    /\ \E fm \in Range(cfg[1].manifest.file_manifest_list.elements) :
          /\ ~Selected(fm)
          /\ \E i \in SilentDeletes : tasks[i].filename = fm.filename
    /\ Cardinality(PlainDeletes) = 2
    /\ WritingTasks # {}

-----------------------------------------------------------------------------
(* install_size under a selection filter *)

\* a selection filter is given
AnyFilter ==
    \/ cfg[1].file_install_tag # <<>>
    \/ cfg[1].file_exclude_filter # <<>>
    \/ cfg[1].file_exclude_configured # <<>>
    \/ cfg[1].file_prefix_filter # <<>>

\* the files of the new manifest that no filter skips
PassedFilters ==
    FileNames(cfg[1].manifest)
      \ (TagSkips(cfg[1]) \cup ExcludeSkips(cfg[1]) \cup ConfiguredSkips(cfg[1])
           \cup IncludeSkips(cfg[1]))

(* C27: whenever a selection filter is set, the install_size run_analysis  *)
(* returns is the sum of the sizes of the files of the new manifest that   *)
(* passed all filters, be they added, changed or unchanged.                *)
C27_InstallSizeFiltered ==
    (pc = "analysed" /\ AnyFilter) =>
        analysis[1].install_size = SizeOfFiles(PassedFilters)

-----------------------------------------------------------------------------
(* A resume journal that cannot be read *)

\* reading the journal raises: the file cannot be opened, or a record names
\* a file that is on disk and not in the new manifest
JournalFails ==
    /\ cfg[1].resume
    /\ \/ cfg[1].resume_file = "unreadable"
       \/ /\ cfg[1].resume_file = "present"
          /\ \E e \in ExistingEntries(cfg[1]) :
                ~HasPath(cfg[1].manifest.file_manifest_list.elements, e.filename)

\* what the same call leaves when there is no journal file
WithoutJournal ==
    run_analysis([cfg[1] EXCEPT !.resume_file = "absent", !.resume_lines = <<>>])

\* the outcome of the call is the given one: the comparison, the sizes, the
\* download queue and the stream up to the order of its plain deletes
SameOutcome(p) ==
    /\ plan[1].raised = p.raised
    /\ plan[1].min_memory = p.analysis.min_memory
    /\ chunks_to_dl = p.chunks_to_dl
    /\ ~p.raised =>
          /\ analysis = <<p.analysis>>
          /\ Len(tasks) = Len(p.tasks) + Cardinality(p.removed)
                            + Len(p.additional_deletion_tasks)
    /\ SubSeq(tasks, 1, Len(p.tasks)) = Numbered(p.tasks)

(* C28: when reading the resume journal fails at any record, planning goes *)
(* on and its whole outcome is that of the same call without a journal     *)
(* file: no record of the journal is applied, and the probe of the install *)
(* directory for missing files is.                                         *)
C28_JournalFailureAsAbsent ==
    (plan # <<>> /\ JournalFails) => SameOutcome(WithoutJournal)

-----------------------------------------------------------------------------
(* The download queue *)

\* the guids of the chunk tasks that have no source file
DownloadedGuids ==
    {tasks[i].chunk_guid :
        i \in {k \in 1..Len(tasks) : tasks[k].kind = "chunk" /\ tasks[k].chunk_file = <<>>}}

\* the position of the first task that takes g from the download
FirstUse(g) == CHOOSE i \in FromDownload(g) : \A j \in FromDownload(g) : i <= j

(* C29: after run_analysis the download queue holds no guid twice, its     *)
(* guids are exactly the guids of the chunk tasks that have neither an     *)
(* old-file nor a new-file source, and they stand in the order in which    *)
(* those guids first appear in the task stream.                            *)
C29_DownloadQueue ==
    pc \in {"analysed", "failed"} =>
        /\ \A i, j \in 1..Len(chunks_to_dl) : chunks_to_dl[i] = chunks_to_dl[j] => i = j
        /\ Range(chunks_to_dl) = DownloadedGuids
        /\ \A i, j \in 1..Len(chunks_to_dl) :
              i < j => FirstUse(chunks_to_dl[i]) < FirstUse(chunks_to_dl[j])

\* the queue holds two guids, one of them taken from the download by two
\* tasks, and the stream has a chunk task that takes its bytes from a file
C29_Witness ==
    /\ pc = "analysed"
    /\ Len(chunks_to_dl) >= 2
    /\ \E g \in Range(chunks_to_dl) : Cardinality(FromDownload(g)) >= 2
    /\ \E i \in 1..Len(tasks) : tasks[i].kind = "chunk" /\ tasks[i].chunk_file # <<>>

-----------------------------------------------------------------------------
(* The processing order under processing_optimization *)

\* the position of the first task of the processed file n
FirstTask(n) == CHOOSE i \in TasksNaming(n) : \A j \in TasksNaming(n) : i <= j

\* the position of the file n in the manifest's files sorted by name
SortIndex(n) ==
    CHOOSE i \in 1..Len(cfg[1].manifest.file_manifest_list.elements) :
        SortedByName(cfg[1].manifest.file_manifest_list.elements)[i].filename = n

\* the processed files that come after f in the stream
EmittedAfter(f) == {h \in Processed : FirstTask(f) < FirstTask(h)}

\* g follows f in the stream although a file that sorts before g was still
\* to come: g was placed there as the partner of f
PlacedAsPartner(f, g) ==
    /\ g \in EmittedAfter(f)
    /\ \A h \in EmittedAfter(f) : FirstTask(g) <= FirstTask(h)
    /\ \E h \in EmittedAfter(f) : SortIndex(h) < SortIndex(g)

\* the number of guids the files f and g share
Shared(f, g) ==
    Cardinality(Range(PartGuids(NewFm(f))) \cap Range(PartGuids(NewFm(g))))

(* C30 as stated: with processing_optimization on, a file G is placed      *)
(* right after a file F as its partner only if both have at least 5 chunk  *)
(* parts, G was not emitted before, G shares at least 5 guids with F, and  *)
(* G shares strictly more guids with F than every other file that was not  *)
(* emitted yet.                                                            *)
C30_StrictlyBestPartner ==
    (pc = "analysed" /\ cfg[1].processing_optimization) =>
        \A f, g \in Processed :
            PlacedAsPartner(f, g) =>
                /\ Len(NewFm(f).chunk_parts) >= 5
                /\ Len(NewFm(g).chunk_parts) >= 5
                /\ Shared(f, g) >= 5
                /\ \A h \in EmittedAfter(f) \ {g} : Shared(f, h) < Shared(f, g)

(* C30 as the planner does it: the partner G of F has, like F, at least 5  *)
(* different guids (hence at least 5 chunk parts), shares at least 5 of    *)
(* them with F, shares at least as many as every other file not emitted    *)
(* yet and strictly more than every such file that sorts before G: of the  *)
(* files that tie for the largest overlap the first in name order is       *)
(* taken.  Without processing_optimization no file leaves the name order.  *)
C30_FirstBestPartner ==
    pc = "analysed" =>
        \A f, g \in Processed :
            PlacedAsPartner(f, g) =>
                /\ cfg[1].processing_optimization
                /\ Cardinality(Range(PartGuids(NewFm(f)))) >= cp_threshold
                /\ Cardinality(Range(PartGuids(NewFm(g)))) >= cp_threshold
                /\ Len(NewFm(f).chunk_parts) >= 5
                /\ Len(NewFm(g).chunk_parts) >= 5
                /\ Shared(f, g) >= 5
                /\ \A h \in EmittedAfter(f) \ {g} :
                      /\ Shared(f, h) <= Shared(f, g)
                      /\ SortIndex(h) < SortIndex(g) => Shared(f, h) < Shared(f, g)

\* 'c' was placed right after 'a' ahead of 'b', with 'd' sharing as many
\* guids with 'a' as 'c' does
C30_Witness ==
    /\ pc = "analysed"
    /\ cfg[1].processing_optimization
    /\ \E f, g, h \in Processed :
          /\ PlacedAsPartner(f, g)
          /\ h \in EmittedAfter(f) \ {g}
          /\ SortIndex(g) < SortIndex(h)
          /\ Shared(f, h) = Shared(f, g)

-----------------------------------------------------------------------------
(* The version Manifest.write puts in the header and in the meta section *)

\* the version field of the header of the written bytes w
HeaderVersion(w) == Unpack32s(SubSeq(w, 38, 41))

\* the body of the written bytes w, decompressed when the header says so
WrittenBody(w) ==
    IF w[37] % 2 = 1 THEN zlib_decompress(Drop(w, 41)).v ELSE Drop(w, 41)

\* the feature_level field of the meta section of the written bytes w
WrittenFeatureLevel(w) == Unpack32s(SubSeq(WrittenBody(w), 6, 9))

\* every bump that applies to the manifest m
Bumps(m) ==
    {17, m.meta.feature_level}
    \cup (IF m.meta.data_version = 1 THEN {18} ELSE {})
    \cup (IF m.file_manifest_list.version = 1 THEN {19} ELSE {})
    \cup (IF m.file_manifest_list.version = 2 THEN {20} ELSE {})
    \cup (IF m.meta.data_version = 2 THEN {21} ELSE {})

ExpectedVersion(m) ==
    Min(21, CHOOSE v \in Bumps(m) : \A u \in Bumps(m) : u <= v)

(* C31: the header version Manifest.write emits lies in 17..21 and is      *)
(* max(17, feature_level) raised by every bump that applies to the         *)
(* manifest written (18 for data_version 1, 19 for FML.version 1, 20 for   *)
(* FML.version 2, 21 for data_version 2), clamped to 21; the feature_level *)
(* in the written meta section and in the object equals it.                *)
C31_TargetVersion ==
    [][(mf_pc = "obj" /\ mf_pc' = "wire") =>
          /\ HeaderVersion(mf_wire') \in 17..21
          /\ HeaderVersion(mf_wire') = ExpectedVersion(mf_obj)
          /\ WrittenFeatureLevel(mf_wire') = HeaderVersion(mf_wire')
          /\ mf_obj'.meta.feature_level = HeaderVersion(mf_wire')]_vars

\* a manifest with data_version 1 and FML.version 2 was written with 20 in
\* the header and in the meta section
C31_Witness ==
    /\ mf_pc = "wire"
    /\ ~mf_padded
    /\ mf_src.meta.data_version = 1
    /\ mf_src.file_manifest_list.version = 2
    /\ HeaderVersion(mf_wire) = 20
    /\ WrittenFeatureLevel(mf_wire) = 20

-----------------------------------------------------------------------------
(* The dispatcher with a single slot *)

\* the installation of Faulty into an arena of one slot
OneSlot == [Faulty EXCEPT !.max_shared_memory = Window]

OneSlotInit ==
    /\ FsIdle
    /\ MfIdle
    /\ PuIdle
    /\ DLManager_init(OneSlot)

\* the fair run into one slot
SpecOneSlot == OneSlotInit /\ [][Next]_vars /\ Fairness

\* the dispatcher has just put the guid g back after a failed put
PutBack(g) ==
    /\ pc = "running"
    /\ djm.pc = "loop"
    /\ djm.c_guid = g
    /\ chunks_to_dl # <<>>
    /\ Head(chunks_to_dl) = g

\* a download task is formed only while the queue is not empty and fewer
\* than 2 * max_workers tasks are active, from the first free slot and the
\* head of the queue
FormsTask ==
    [][(djm.pc \in {"loop", "inner"} /\ djm'.pc = "put") =>
          /\ chunks_to_dl # <<>>
          /\ active_tasks < 2 * cfg[1].max_workers
          /\ sms # <<>>
          /\ djm'.sms = Head(sms)
          /\ sms' = Tail(sms)
          /\ djm'.c_guid = Head(chunks_to_dl)
          /\ chunks_to_dl' = Tail(chunks_to_dl)]_vars

\* after a failed put the guid is at the head of the queue again and
\* active_tasks is as it was
PutsBack ==
    [][(djm.pc = "put" /\ djm'.pc = "loop") =>
          /\ chunks_to_dl' = <<djm.c_guid>> \o chunks_to_dl
          /\ active_tasks' = active_tasks
          /\ dl_worker_queue' = dl_worker_queue]_vars

\* a guid put back is submitted to the workers later
DispatchedAgain ==
    \A g \in 1..2 :
        PutBack(g) ~> (\E i \in 1..Len(dl_worker_queue) :
                          /\ dl_worker_queue[i].kind = "task"
                          /\ dl_worker_queue[i].chunk_guid = g)

(* C32: the dispatcher forms a download task only while the download queue *)
(* is not empty and active < 2 * max_workers, from one free slot and the   *)
(* head of the queue; when the put on the worker queue fails the guid is   *)
(* back at the head of the queue, active is not incremented, and the guid  *)
(* is dispatched again later.                                              *)
C32_DispatchAndRequeue == FormsTask /\ PutsBack /\ DispatchedAgain

-----------------------------------------------------------------------------
(* C33: for every pattern of put failures each task of the planner's       *)
(* stream is put on the writer queue exactly once and in the order of the  *)
(* stream: the positions of the tasks forwarded so far are 1, 2, 3, ...    *)
C33_ForwardedOnce ==
    pc \in {"running", "exited"} =>
        /\ \A i \in 1..Len(hist.written) : hist.written[i].pos = i
        /\ Len(hist.written) <= main.num_tasks

-----------------------------------------------------------------------------
(* Runs in which no put fails and every download succeeds in the end *)

\* a first installation of one file that uses its first chunk again after
\* its second, with the arena the memory guard asks for
Repeating ==
    [Settings(NewManifest(<<NewFile(NameA, <<<<1, 0, 1>>, <<2, 0, 1>>, <<1, 1, 1>>>>,
                                    <<>>, 0)>>, Window), <<>>)
        EXCEPT !.max_shared_memory = Window]

\* the installation of Faulty with puts that do not fail
FailingOnce == [Faulty EXCEPT !.put_faults = FALSE]

LiveScenarios == {FailingOnce, Repeating}

LiveInit ==
    /\ FsIdle
    /\ MfIdle
    /\ PuIdle
    /\ \E c \in LiveScenarios : DLManager_init(c)

\* fair scheduling once the threads and the processes were started
LiveFairness ==
    /\ WF_vars(DjmThread)
    /\ WF_vars(DrhThread)
    /\ WF_vars(FrhThread)
    /\ WF_vars(MainRead \/ MainReset \/ MainShutdown \/ MainExit)
    /\ WF_vars(DLWorkerStep \/ DLWorkerExit)
    /\ WF_vars(WriterStep \/ WriterExit)

SpecLive == LiveInit /\ [][Next]_vars /\ LiveFairness

\* every task of the stream was forwarded to the writer
AllForwarded ==
    /\ pc \in {"running", "exited"}
    /\ {hist.written[i].pos : i \in 1..Len(hist.written)} = 1..main.num_tasks

\* every slot is in the free pool
AllSlotsFree == pc \in {"running", "exited"} /\ Range(sms) = 1..NumSlots

(* C34: when run_analysis succeeded and there is a chunk to download, then *)
(* under fair scheduling, with downloads that succeed in the end and a     *)
(* writer that answers every task, the handler forwards every task of the  *)
(* stream to the writer and every slot comes back to the free pool; the    *)
(* pool has at least one slot.                                             *)
C34_NoDeadlock ==
    /\ [](pc = "running" => NumSlots >= 1)
    /\ (pc = "running" /\ chunks_to_dl # <<>>) ~> AllForwarded
    /\ (pc = "running" /\ chunks_to_dl # <<>>) ~> AllSlotsFree

-----------------------------------------------------------------------------
(* The number of download tasks in flight *)

\* a first installation of one file of three chunks by one worker into three
\* slots, with downloads that can fail
ThreeChunks ==
    [Settings(NewManifest(<<NewFile(NameA, <<<<1, 0, 1>>, <<2, 0, 1>>, <<3, 0, 1>>>>,
                                    <<>>, 0)>>, Window), <<>>)
        EXCEPT !.max_shared_memory = 3 * Window, !.dl_faults = TRUE]

BusyInit ==
    /\ FsIdle
    /\ MfIdle
    /\ PuIdle
    /\ DLManager_init(ThreeChunks)

\* the run up to the end of the downloads: the dispatcher, the two handlers,
\* the workers and the writer, without the progress loop of run_real
BusyNext ==
    \/ RunAnalysis
    \/ Run
    \/ DjmPop
    \/ DjmPut
    \/ DjmStore
    \/ DrhStart
    \/ DrhFileTask
    \/ DrhChunkTask
    \/ DrhGet
    \/ DrhDec
    \/ DrhRetry
    \/ DrhReStore
    \/ FrhResult
    \/ DLWorkerStep
    \/ WriterStep

SpecBusy == BusyInit /\ [][BusyNext]_vars

\* the download tasks put on the worker queue that no worker has answered
Unanswered == Len(SelectSeq(dl_worker_queue, LAMBDA t : t.kind = "task"))

(* C35: in every reachable state the number of download tasks that are on  *)
(* the worker queue and not yet answered is at most 2 * max_workers, and   *)
(* active_tasks is not negative.                                           *)
C35_ActiveBound ==
    pc = "running" =>
        /\ Unanswered <= 2 * cfg[1].max_workers
        /\ active_tasks >= 0

-----------------------------------------------------------------------------
\* the slots that are free, carried by a download task or a failed result,
\* held by in_buffer, or on their way to the release
AccountedSlots == Range(sms) \cup Range(InFlightSlots) \cup OccupiedSlots

(* C36: in every state of a run every slot created at its start is in the  *)
(* free deque, attached to a download task or a failed result (queued or   *)
(* being handled), held by in_buffer, or attached to a writer task or      *)
(* result with RELEASE_MEMORY, also after a put of the dispatcher or a     *)
(* resubmit of the handler has failed.                                     *)
C36_SlotsConserved ==
    pc = "running" => \A s \in 1..NumSlots : s \in AccountedSlots

-----------------------------------------------------------------------------
\* the guid g was submitted before and is in the download queue again: the
\* handler has pushed it back after a resubmit that failed
PushedBack(g) ==
    /\ pc = "running"
    /\ running
    /\ g \in DOMAIN hist.submitted
    /\ hist.submitted[g] > 0
    /\ g \in Range(chunks_to_dl)

(* C37: a guid that the download-result handler pushed back to the head of *)
(* the download queue after a failed resubmit is dispatched again, in      *)
(* every interleaving of a run that is not cancelled.                      *)
C37_PushedBackDispatched ==
    \A g \in GuidNums :
        PushedBack(g) ~> (/\ g \in DOMAIN hist.submitted
                          /\ hist.submitted[g] > hist.dl_failed[g])

-----------------------------------------------------------------------------
(* The resume journal during an update that patches a file *)

\* the update of Update with a resume file configured and downloads that
\* can fail
PatchedJournal == [Update EXCEPT !.resume_file = "absent", !.dl_faults = TRUE]

ResumeInit ==
    /\ FsIdle
    /\ MfIdle
    /\ PuIdle
    /\ DLManager_init(PatchedJournal)

SpecResume == ResumeInit /\ [][BusyNext]_vars

\* the records the resume file holds now
RecordsNow == {JournalEntry(journal.lines[k]) : k \in 1..Len(journal.lines)}

\* run_analysis, started now with resume on, would take the file of the
\* record e as completed
CompletedNow(e) ==
    /\ e.filename \in DOMAIN disk
    /\ HasPath(cfg[1].manifest.file_manifest_list.elements, e.filename)
    /\ e.file_hash = Hex(NewFm(e.filename).hash)

\* the file n holds at its final path the content the new manifest gives it
InPlace(n) == n \in DOMAIN disk /\ disk[n] = Content(NewFm(n).chunk_parts)

(* C38: a record of the resume journal for a file F exists only when the   *)
(* new content of F is at the final path of F, so that at whatever point   *)
(* the run is interrupted every file that run_analysis would then take as  *)
(* completed from the journal holds its new content.                       *)
C38_JournalAfterRename ==
    pc = "running" =>
        \A e \in RecordsNow :
            /\ HasPath(cfg[1].manifest.file_manifest_list.elements, e.filename)
            /\ InPlace(e.filename)
            /\ CompletedNow(e) => InPlace(e.filename)

-----------------------------------------------------------------------------
(* The four sets of the comparison through the resume step and the filters *)

\* the comparison of the two manifests, and what the resume step makes of it
Compared == ManifestComparison_create(cfg[1].manifest, cfg[1].old_manifest)

AfterResume == Resumed(cfg[1], Compared)

\* the comparison after the resume step and after each of the four filters
ComparisonSteps ==
    <<AfterResume,
      SkipFiles(AfterResume, TagSkips(cfg[1])),
      SkipFiles(SkipFiles(AfterResume, TagSkips(cfg[1])), ExcludeSkips(cfg[1])),
      SkipFiles(SkipFiles(SkipFiles(AfterResume, TagSkips(cfg[1])), ExcludeSkips(cfg[1])),
                ConfiguredSkips(cfg[1])),
      Filtered(cfg[1], AfterResume)>>

\* added, changed and unchanged split the names of the new manifest, and
\* removed holds none of them
Partitioned(mc) ==
    /\ mc.added \cap mc.changed = {}
    /\ mc.added \cap mc.unchanged = {}
    /\ mc.changed \cap mc.unchanged = {}
    /\ mc.added \cup mc.changed \cup mc.unchanged = FileNames(cfg[1].manifest)
    /\ mc.removed \cap FileNames(cfg[1].manifest) = {}

\* the names of the files of the old manifest
OldNames ==
    IF cfg[1].old_manifest = <<>> THEN {} ELSE FileNames(cfg[1].old_manifest[1])

\* the files the task stream takes bytes of the old version from: those
\* renamed from a temporary file and, without read_files, those chunk tasks
\* read from
TakenFromOldVersion ==
    {tasks[i].filename : i \in {j \in 1..Len(tasks) : "RENAME_FILE" \in tasks[j].flags}}
    \cup (IF cfg[1].read_files THEN {}
          ELSE {tasks[i].chunk_file :
                   i \in {j \in 1..Len(tasks) : tasks[j].kind = "chunk"
                                                 /\ tasks[j].chunk_file # <<>>}})

(* C39: after the resume step and after each filter added, changed and     *)
(* unchanged are pairwise disjoint, their union is the set of the names of *)
(* the new manifest, and removed is disjoint from them and is as the       *)
(* comparison of the manifests left it; the comparison the analysis        *)
(* returns is the last of these, every file in changed is in the old       *)
(* manifest, and only files in changed are taken from their old version.   *)
C39_SetsPartition ==
    pc = "analysed" =>
        /\ \A k \in 1..Len(ComparisonSteps) :
              /\ Partitioned(ComparisonSteps[k])
              /\ ComparisonSteps[k].removed = Compared.removed
        /\ analysis[1].manifest_comparison = ComparisonSteps[5]
        /\ analysis[1].manifest_comparison.changed \subseteq OldNames
        /\ TakenFromOldVersion \subseteq analysis[1].manifest_comparison.changed

\* the probe moved a file that is missing on disk to added, a filter moved
\* a file to unchanged, a file was removed and a file is patched
C39_Witness ==
    /\ pc = "analysed"
    /\ AfterResume # Compared
    /\ ComparisonSteps[5] # AfterResume
    /\ Compared.removed # {}
    /\ Compared.changed # {}


-----------------------------------------------------------------------------
(* The processing order against the order by name *)

\* the planner's outcome for the installer's settings with the optimization
\* switched on and switched off
Reordered == run_analysis([cfg[1] EXCEPT !.processing_optimization = TRUE])

ByName == run_analysis([cfg[1] EXCEPT !.processing_optimization = FALSE])

\* fmlist after the optimization for the comparison the planner works on
ReorderedList ==
    ProcessingOrder([cfg[1] EXCEPT !.processing_optimization = TRUE],
                    Reordered.analysis.manifest_comparison)

\* how often each task occurs in a task stream
TaskBag(stream) ==
    [t \in Range(stream) |-> Cardinality({i \in 1..Len(stream) : stream[i] = t})]

\* a task stream with every cleanup mark taken off
Unmarked(stream) == [i \in 1..Len(stream) |-> [stream[i] EXCEPT !.cleanup = FALSE]]

\* the number of tasks of a stream that free the chunk g after their write
Cleanups(stream, g) ==
    Cardinality({i \in 1..Len(stream) :
                    stream[i].kind = "chunk" /\ stream[i].chunk_guid = g
                    /\ stream[i].cleanup})

\* the reordered list holds the files that are not unchanged, each once
OnlyReorders ==
    /\ {ReorderedList[i].filename : i \in 1..Len(ReorderedList)}
         = NamesOf(cfg[1].manifest.file_manifest_list.elements)
              \ Reordered.analysis.manifest_comparison.unchanged
    /\ \A i, j \in 1..Len(ReorderedList) :
          ReorderedList[i].filename = ReorderedList[j].filename => i = j
    /\ \A i \in 1..Len(ReorderedList) :
          ReorderedList[i]
             = get_file_by_path(cfg[1].manifest.file_manifest_list.elements,
                                ReorderedList[i].filename)

SameDownloads ==
    /\ Range(Reordered.chunks_to_dl) = Range(ByName.chunks_to_dl)
    /\ Reordered.analysis.dl_size = ByName.analysis.dl_size

\* C40 as stated: the optimization only reorders, so the multiset of emitted
\* tasks, the download queue as a set and dl_size are the same with
\* processing_optimization on and off when read_files is off
C40_SameTaskMultiset ==
    (pc = "analysed" /\ ~cfg[1].read_files) =>
        /\ OnlyReorders
        /\ TaskBag(Reordered.tasks) = TaskBag(ByName.tasks)
        /\ SameDownloads

\* C40: with read_files off the reordered list holds every file that is not
\* unchanged exactly once and no other file; the download queue as a set and
\* dl_size are the same with the optimization on and off, and so is the
\* multiset of emitted tasks once the cleanup marks are taken off, every chunk
\* being freed by as many tasks in the one stream as in the other
C40_SameTasksButCleanup ==
    (pc = "analysed" /\ ~cfg[1].read_files) =>
        /\ OnlyReorders
        /\ TaskBag(Unmarked(Reordered.tasks)) = TaskBag(Unmarked(ByName.tasks))
        /\ \A g \in AllGuids(cfg[1].manifest) :
              Cleanups(Reordered.tasks, g) = Cleanups(ByName.tasks, g)
        /\ SameDownloads

\* the optimization moved a file and, with it, the cleanup of a chunk to a
\* task of another offset
C40_Witness ==
    /\ pc = "analysed"
    /\ ~cfg[1].read_files
    /\ cfg[1].processing_optimization
    /\ chunks_to_dl = Reordered.chunks_to_dl
    /\ Reordered.tasks # ByName.tasks
    /\ TaskBag(Reordered.tasks) # TaskBag(ByName.tasks)

=============================================================================
